---- MODULE Spec2Model ----
(***************************************************************************)
(* Model of the advocate listing endpoint (GET /api/advocates), of the     *)
(* pagination, sorting and filtering utilities (getPaginationParams,       *)
(* encodeCursor, decodeCursor, getLinkHeader, getSortParams,               *)
(* getFilterParams, buildFilterConditions) and of the store it reads.      *)
(*                                                                         *)
(* The specifications share the variables:                                 *)
(*   Spec        the store and one traced HTTP exchange with the endpoint  *)
(*   SpecParams  getPaginationParams applied to enumerated query strings   *)
(*   SpecCursor  encodeCursor / decodeCursor applied to enumerated inputs  *)
(*   SpecLink    getLinkHeader applied to enumerated query strings         *)
(*   SpecFilters getFilterParams and buildFilterConditions                 *)
(*   SpecSort    getSortParams applied to enumerated sort parameters       *)
(***************************************************************************)
EXTENDS Integers, Sequences, FiniteSets, TLC

VARIABLES
    advocates,      \* the advocates table: rows with id 1..advocates exist
    phase,          \* "idle" | "responded" (Spec); "input" | "parsed" (SpecParams);
                    \* "input" | "encoded" | "decoded" (SpecCursor)
    request,        \* the query string of the traced request
    allAdvocates,   \* GET's local allAdvocates: the sorted query result (ids)
    response,       \* the response of the traced request
    storeFailed,    \* whether a store read of the traced request threw
    params,         \* result of getPaginationParams (SpecParams)
    cursorInput,    \* the triple handed to encodeCursor (SpecCursor)
    cursorString,   \* the cursor string handed to decodeCursor (SpecCursor)
    cursorResult,   \* outcome of decodeCursor (SpecCursor)
    searchParams,   \* the entries of a request URL's query string (SpecLink, SpecFilters)
    pagination,     \* the PaginationMeta handed to getLinkHeader (SpecLink)
    linkHeader,     \* result of getLinkHeader (SpecLink)
    filterParams,   \* result of getFilterParams (SpecFilters)
    conditions,     \* outcome of buildFilterConditions (SpecFilters)
    sortParams,     \* result of getSortParams (SpecSort)
    expressions,    \* result of getSortExpressionsWithCaseInsensitive (SpecSort)
    earlier,        \* the exchange before the traced one (SpecETag, SpecChain)
    tieOrder,       \* the order the unchanged store returns tied rows in (SpecChain)
    collected,      \* the data of the responses of a traversal, concatenated
    serviceCall,    \* the AdvocateService method called and its arguments (SpecClient)
    serviceResult,  \* what the AdvocateService method returned (SpecSearch)
    hook,           \* the state of the useAdvocates hook (SpecHook, SpecMount)
    fetches,        \* the calls of fetchAdvocates, in the order they were issued
    pending,        \* the calls of fetchAdvocates in flight (indices of fetches)
    failures        \* the calls of fetchAdvocates that threw

\* the variables of the utility specifications added to the first three
utilVars == <<searchParams, pagination, linkHeader, filterParams, conditions, sortParams>>

\* the variables of the specifications added after those
hookVars == <<hook, fetches, pending, failures>>

extraVars == <<expressions, earlier, tieOrder, collected, serviceCall, serviceResult, hookVars>>

\* the variables of Spec, SpecParams and SpecCursor other than phase
baseVars == <<advocates, request, allAdvocates, response, storeFailed,
              params, cursorInput, cursorString, cursorResult>>

vars == <<advocates, phase, request, allAdvocates, response, storeFailed,
          params, cursorInput, cursorString, cursorResult, utilVars, extraVars>>

(***************************************************************************)
(* Bounds                                                                  *)
(***************************************************************************)
MaxAdvocates == 11      \* rows the store can hold
MaxStrLen == 2          \* length of the enumerated page / limit strings
MaxPage == 3            \* largest page number requested from the endpoint

(***************************************************************************)
(* Program constants                                                       *)
(***************************************************************************)
DEFAULT_PAGE_SIZE == 10
MAX_PAGE_SIZE == 50
ALLOWED_PAGE_SIZES == {5, 10, 25, 50}

Min(a, b) == IF a < b THEN a ELSE b
Max(a, b) == IF a > b THEN a ELSE b

(***************************************************************************)
(* Query-string values.  A parameter is absent (searchParams.get gives     *)
(* null) or present with a string; the strings of page and limit are       *)
(* sequences of one-character strings so that parseInt can be computed.    *)
(***************************************************************************)
Absent == [present |-> FALSE, v |-> <<>>]
Given(s) == [present |-> TRUE, v |-> s]

Alphabet == {"0", "1", "2", "5", "-", " ", "x"}

RECURSIVE StringsUpTo(_)
StringsUpTo(n) ==
    IF n = 0 THEN {<<>>}
    ELSE LET shorter == StringsUpTo(n - 1)
         IN  shorter \cup {Append(s, c) : s \in {t \in shorter : Len(t) = n - 1}, c \in Alphabet}

DigitValue(c) ==
    CASE c = "0" -> 0 [] c = "1" -> 1 [] c = "2" -> 2 [] c = "3" -> 3
      [] c = "4" -> 4 [] c = "5" -> 5 [] c = "6" -> 6 [] c = "7" -> 7
      [] c = "8" -> 8 [] c = "9" -> 9 [] c = "a" -> 10 [] c = "b" -> 11
      [] c = "c" -> 12 [] c = "d" -> 13 [] c = "e" -> 14 [] c = "f" -> 15
      [] OTHER -> 99

IsDigit(c, radix) == DigitValue(c) < radix

(***************************************************************************)
(* JavaScript values.  Scalars are records [t, n, s]: t is the type tag, n *)
(* the value of a finite number, s the text of a string or the ISO         *)
(* serialization (toISOString) of a valid Date.                            *)
(***************************************************************************)
JsUndefined == [t |-> "undefined", n |-> 0, s |-> ""]
JsNull == [t |-> "null", n |-> 0, s |-> ""]
NaN == [t |-> "nan", n |-> 0, s |-> ""]
Infinity == [t |-> "infinity", n |-> 0, s |-> ""]
InvalidDate == [t |-> "invaliddate", n |-> 0, s |-> ""]
Num(n) == [t |-> "number", n |-> n, s |-> ""]
Str(s) == [t |-> "string", n |-> 0, s |-> s]
DateOf(iso) == [t |-> "date", n |-> 0, s |-> iso]

\* the global isNaN: true of NaN and of undefined
isNaN(r) == r.t \in {"nan", "undefined"}

RECURSIVE TrimStart(_)
TrimStart(s) ==
    IF Len(s) > 0 /\ Head(s) = " " THEN TrimStart(Tail(s)) ELSE s

\* The value of the longest prefix of s made of digits of the radix, seen so
\* far acc with seen telling whether a digit was read.
RECURSIVE DigitsPrefix(_, _, _, _)
DigitsPrefix(s, radix, acc, seen) ==
    IF Len(s) > 0 /\ IsDigit(Head(s), radix)
    THEN DigitsPrefix(Tail(s), radix, acc * radix + DigitValue(Head(s)), TRUE)
    ELSE IF seen THEN Num(acc) ELSE NaN

Negate(r) == IF isNaN(r) THEN r ELSE Num(0 - r.n)

\* ECMAScript parseInt(string) with no radix argument: leading white space
\* and a sign are skipped, a 0x prefix selects radix 16, the digits that
\* follow are read and anything after them is ignored.
parseInt(s) ==
    LET t == TrimStart(s)
        neg == Len(t) > 0 /\ Head(t) = "-"
        u == IF neg THEN Tail(t) ELSE t
        hex == Len(u) >= 2 /\ u[1] = "0" /\ u[2] = "x"
        r == IF hex THEN DigitsPrefix(Tail(Tail(u)), 16, 0, FALSE)
                    ELSE DigitsPrefix(u, 10, 0, FALSE)
    IN  IF neg THEN Negate(r) ELSE r

\* ECMAScript parseFloat on the strings of the alphabet: as parseInt in
\* radix 10, without the 0x prefix.
parseFloat(s) ==
    LET t == TrimStart(s)
        neg == Len(t) > 0 /\ Head(t) = "-"
        u == IF neg THEN Tail(t) ELSE t
        r == DigitsPrefix(u, 10, 0, FALSE)
    IN  IF neg THEN Negate(r) ELSE r

\* searchParams.get(key) || fallback
OrElse(p, fallback) == IF p.present /\ p.v # <<>> THEN p.v ELSE fallback

\* String(DEFAULT_PAGE_SIZE)
DefaultPageSizeString == <<"1", "0">>

(***************************************************************************)
(* Cursor tokens.                                                          *)
(*                                                                         *)
(* A root is what JSON.parse can return, as far as decodeCursor looks at   *)
(* it: t is "null", "number", "string", "array" or "object", and for an    *)
(* object the three properties field, value, direction (JsUndefined for a  *)
(* missing key).  The same shape with t = "undefined" is decodeCursor's    *)
(* undefined result.                                                       *)
(*                                                                         *)
(* A text is the UTF-8 text a cursor string decodes to: a JSON document    *)
(* (its root) or text that JSON.parse rejects.  Base64 is lossless on the  *)
(* well-formed text JSON.stringify produces, so a cursor string made by    *)
(* Buffer.from(text).toString('base64') is kept as the text it carries;    *)
(* every other string ("plain") decodes to text that is no JSON document.  *)
(***************************************************************************)
Root(t, f, v, d) == [t |-> t, field |-> f, value |-> v, direction |-> d]
NonObject(t) == Root(t, JsUndefined, JsUndefined, JsUndefined)
Obj(f, v, d) == Root("object", f, v, d)
Undefined == NonObject("undefined")

GarbageText == [t |-> "garbage", root |-> Undefined]
JsonText(root) == [t |-> "json", root |-> root]

NoCursor == [k |-> "null", s |-> "", text |-> GarbageText]
PlainString(s) == [k |-> "plain", s |-> s, text |-> GarbageText]
Base64String(text) == [k |-> "b64", s |-> "", text |-> text]

\* Truthiness of a string-or-null / string-or-undefined cursor
CursorTruthy(c) == c.k = "b64" \/ (c.k = "plain" /\ c.s # "")

\* !x for a scalar
Falsy(x) ==
    \/ x.t \in {"undefined", "null", "nan"}
    \/ x.t = "number" /\ x.n = 0
    \/ x.t = "string" /\ x.s = ""

\* Buffer.from(text).toString('base64')
Base64Encode(text) == Base64String(text)

\* Buffer.from(cursor, 'base64').toString('utf-8'): never throws
Base64Decode(c) == IF c.k = "b64" THEN c.text ELSE GarbageText

\* JSON serialization of one property value (SerializeJSONProperty): a Date
\* goes through toJSON, a non-finite number and an invalid Date become null,
\* an undefined value drops the key.
SerializeJSONProperty(x) ==
    CASE x.t = "date" -> Str(x.s)
      [] x.t \in {"nan", "infinity", "invaliddate"} -> JsNull
      [] OTHER -> x

\* JSON.stringify({ field, value, direction })
JSONStringify(obj) ==
    JsonText(Obj(SerializeJSONProperty(obj.field),
                 SerializeJSONProperty(obj.value),
                 SerializeJSONProperty(obj.direction)))

\* Outcome of a call: a returned value or a thrown exception
Return(v) == [outcome |-> "return", value |-> v]
Throw == [outcome |-> "throw", value |-> Undefined]

\* JSON.parse(text): throws a SyntaxError on text that is no JSON document
JSONParse(text) == IF text.t = "json" THEN Return(text.root) ELSE Throw

\* The try block of decodeCursor
DecodeCursorTry(cursor) ==
    LET parsed == JSONParse(Base64Decode(cursor))
        cursorData == parsed.value
    IN  IF parsed.outcome = "throw" THEN Throw
        ELSE IF cursorData.t = "null" THEN Throw   \* TypeError: property of null
        ELSE IF Falsy(cursorData.field) \/ cursorData.direction.t = "undefined"
             THEN Return(Undefined)
        ELSE Return(cursorData)

\* decodeCursor without its try / catch
decodeCursor_uncaught(cursor) ==
    IF ~CursorTruthy(cursor) THEN Return(Undefined) ELSE DecodeCursorTry(cursor)

decodeCursor(cursor) ==
    IF ~CursorTruthy(cursor) THEN Return(Undefined)
    ELSE LET r == DecodeCursorTry(cursor)
         IN  IF r.outcome = "throw" THEN Return(Undefined) ELSE r

\* the direction is not written into the token
encodeCursor_forwardOnly(field, value, direction) ==
    Base64Encode(JSONStringify(Obj(Str(field), value, Str("forward"))))

encodeCursor(field, value, direction) ==
    Base64Encode(JSONStringify(Obj(Str(field), value, Str(direction))))

(***************************************************************************)
(* getPaginationParams                                                     *)
(***************************************************************************)
\* page clamped at 0 instead of 1
getPaginationParams_clampAtZero(q) ==
    LET cursor == IF CursorTruthy(q.cursor) THEN q.cursor ELSE NoCursor
        page0 == parseInt(OrElse(q.page, <<"1">>))
        page == IF isNaN(page0) \/ page0.n < 0 THEN 1 ELSE page0.n
        limit0 == parseInt(OrElse(q.limit, DefaultPageSizeString))
        limit1 == IF isNaN(limit0) \/ limit0.n \notin ALLOWED_PAGE_SIZES
                  THEN DEFAULT_PAGE_SIZE ELSE limit0.n
        limit == Min(limit1, MAX_PAGE_SIZE)
    IN  [page |-> page, limit |-> limit, cursor |-> cursor]

getPaginationParams(q) ==
    LET cursor == IF CursorTruthy(q.cursor) THEN q.cursor ELSE NoCursor
        page0 == parseInt(OrElse(q.page, <<"1">>))
        page == IF isNaN(page0) \/ page0.n < 1 THEN 1 ELSE page0.n
        limit0 == parseInt(OrElse(q.limit, DefaultPageSizeString))
        limit1 == IF isNaN(limit0) \/ limit0.n \notin ALLOWED_PAGE_SIZES
                  THEN DEFAULT_PAGE_SIZE ELSE limit0.n
        limit == Min(limit1, MAX_PAGE_SIZE)
    IN  [page |-> page, limit |-> limit, cursor |-> cursor]

(***************************************************************************)
(* The store.  Row id is the id of the id-th inserted advocate; its        *)
(* columns repeat the 15 rows of the seed data (advocateBaseData), and     *)
(* createdAt / updatedAt grow with the insertion order.                    *)
(***************************************************************************)
SeedYearsOfExperience == <<10, 8, 5, 12, 7, 9, 11, 6, 4, 13, 10, 5, 14, 9, 3>>
\* rank of LOWER(firstName), LOWER(lastName), LOWER(degree) in string order
SeedFirstNameRank == <<10, 8, 1, 14, 6, 3, 9, 5, 12, 4, 15, 7, 13, 11, 2>>
SeedLastNameRank == <<4, 13, 8, 1, 3, 12, 14, 7, 2, 11, 10, 9, 5, 15, 6>>
SeedDegreeRank == <<1, 3, 2, 1, 3, 2, 1, 3, 2, 1, 3, 2, 1, 3, 2>>

SeedIndex(id) == ((id - 1) % 15) + 1

YearsOfExperience(id) == SeedYearsOfExperience[SeedIndex(id)]

Column(id, field) ==
    CASE field = "firstName" -> SeedFirstNameRank[SeedIndex(id)]
      [] field = "lastName" -> SeedLastNameRank[SeedIndex(id)]
      [] field = "degree" -> SeedDegreeRank[SeedIndex(id)]
      [] field = "yearsOfExperience" -> YearsOfExperience(id)
      [] field = "createdAt" -> id
      [] field = "updatedAt" -> id

(***************************************************************************)
(* Sorting                                                                 *)
(***************************************************************************)
ALLOWED_ADVOCATE_SORT_FIELDS ==
    {"firstName", "lastName", "degree", "yearsOfExperience", "createdAt", "updatedAt"}

AbsentStr == [present |-> FALSE, v |-> ""]
GivenStr(s) == [present |-> TRUE, v |-> s]
OrElseStr(p, fallback) == IF p.present /\ p.v # "" THEN p.v ELSE fallback

\* a secondary field that falls back to the default field like the primary
getSortParams_defaultSecondary(q) ==
    LET sortField == OrElseStr(q.sort, "createdAt")
        sortDirection == OrElseStr(q.order, "desc")
        secondarySortField == OrElseStr(q.secondarySort, "")
        secondarySortDirection == OrElseStr(q.secondaryOrder, "asc")
        field == IF sortField \in ALLOWED_ADVOCATE_SORT_FIELDS
                 THEN sortField ELSE "createdAt"
        direction == IF sortDirection \in {"asc", "desc"}
                     THEN sortDirection ELSE "desc"
        secondaryField == IF secondarySortField = "" THEN ""
                          ELSE IF secondarySortField \in ALLOWED_ADVOCATE_SORT_FIELDS
                          THEN secondarySortField ELSE "createdAt"
        secondaryDirection == IF secondarySortDirection \in {"asc", "desc"}
                              THEN secondarySortDirection ELSE "asc"
    IN  [field |-> field, direction |-> direction,
         secondaryField |-> secondaryField,
         secondaryDirection |-> IF secondaryField # "" THEN secondaryDirection ELSE ""]

\* "" stands for an undefined secondaryField / secondaryDirection
getSortParams(q) ==
    LET sortField == OrElseStr(q.sort, "createdAt")
        sortDirection == OrElseStr(q.order, "desc")
        secondarySortField == OrElseStr(q.secondarySort, "")
        secondarySortDirection == OrElseStr(q.secondaryOrder, "asc")
        field == IF sortField \in ALLOWED_ADVOCATE_SORT_FIELDS
                 THEN sortField ELSE "createdAt"
        direction == IF sortDirection \in {"asc", "desc"}
                     THEN sortDirection ELSE "desc"
        secondaryField == IF secondarySortField # ""
                             /\ secondarySortField \in ALLOWED_ADVOCATE_SORT_FIELDS
                          THEN secondarySortField ELSE ""
        secondaryDirection == IF secondarySortDirection \in {"asc", "desc"}
                              THEN secondarySortDirection ELSE "asc"
    IN  [field |-> field, direction |-> direction,
         secondaryField |-> secondaryField,
         secondaryDirection |-> IF secondaryField # "" THEN secondaryDirection ELSE ""]

\* the columns of the advocates table
AdvocatesTable ==
    {"id", "firstName", "lastName", "degree", "yearsOfExperience", "phoneNumber",
     "createdAt", "updatedAt"}

\* an ORDER BY list that stops after the primary expression
getSortExpressionsWithCaseInsensitive_primaryOnly(sp) ==
    (IF sp.field \in AdvocatesTable
     THEN << <<sp.field, IF sp.direction = "asc" THEN "asc" ELSE "desc">> >>
     ELSE <<>>)

\* The ORDER BY list: <<field, direction>> pairs, primary first
getSortExpressionsWithCaseInsensitive(sp) ==
    (IF sp.field \in AdvocatesTable
     THEN << <<sp.field, IF sp.direction = "asc" THEN "asc" ELSE "desc">> >>
     ELSE <<>>)
    \o
    (IF sp.secondaryField # "" /\ sp.secondaryField \in AdvocatesTable
     THEN << <<sp.secondaryField, IF sp.secondaryDirection = "asc" THEN "asc" ELSE "desc">> >>
     ELSE <<>>)

\* Row a comes before row b under the ORDER BY list exprs; rows that agree on
\* every expression come in the order the database happens to produce, here
\* ascending or descending id (tie).
RECURSIVE Before(_, _, _, _)
Before(a, b, exprs, tie) ==
    IF exprs = <<>> THEN (IF tie = "idAsc" THEN a < b ELSE a > b)
    ELSE LET field == Head(exprs)[1]
             dir == Head(exprs)[2]
             ka == Column(a, field)
             kb == Column(b, field)
         IN  IF ka = kb THEN Before(a, b, Tail(exprs), tie)
             ELSE IF dir = "asc" THEN ka < kb ELSE ka > kb

RECURSIVE OrderBy(_, _, _)
OrderBy(rows, exprs, tie) ==
    IF rows = {} THEN <<>>
    ELSE LET first == CHOOSE a \in rows : \A b \in rows \ {a} : Before(a, b, exprs, tie)
         IN  <<first>> \o OrderBy(rows \ {first}, exprs, tie)

(***************************************************************************)
(* GET /api/advocates                                                      *)
(***************************************************************************)
\* Array.prototype.slice(from, to) for 0 <= from, on a 1-based sequence
Slice(seq, from, to) == SubSeq(seq, from + 1, Min(to, Len(seq)))

\* allAdvocates.findIndex(advocate => advocate.id === value), 0-based, -1 if none
FindIndex(all, value) ==
    LET hits == {i \in 1..Len(all) : Num(all[i]) = value}
    IN  IF hits = {} THEN -1
        ELSE (CHOOSE i \in hits : \A j \in hits : i <= j) - 1

\* Array.from(advocatesMap.values()): one entry per id, in first-insertion order
RECURSIVE MapValues(_)
MapValues(list) ==
    IF list = <<>> THEN <<>>
    ELSE LET init == MapValues(SubSeq(list, 1, Len(list) - 1))
             last == list[Len(list)]
         IN  IF \E i \in 1..Len(init) : init[i] = last THEN init ELSE Append(init, last)

offset_fromPage(page, limit) == page * limit

offset(page, limit) == (page - 1) * limit

OffsetWindow(all, page, limit) ==
    Slice(all, offset(page, limit), offset(page, limit) + limit)

\* forward window starting on the cursor row
CursorWindow_inclusive(all, cursorItemIndex, direction, limit) ==
    IF direction = Str("forward")
    THEN Slice(all, cursorItemIndex, cursorItemIndex + limit)
    ELSE Slice(all, Max(0, cursorItemIndex - limit), cursorItemIndex)

\* backward window without its start index
CursorWindow_unbounded(all, cursorItemIndex, direction, limit) ==
    IF direction = Str("forward")
    THEN Slice(all, cursorItemIndex + 1, cursorItemIndex + 1 + limit)
    ELSE Slice(all, 0, cursorItemIndex)

CursorWindow(all, cursorItemIndex, direction, limit) ==
    IF direction = Str("forward")
    THEN Slice(all, cursorItemIndex + 1, cursorItemIndex + 1 + limit)
    ELSE Slice(all, Max(0, cursorItemIndex - limit), cursorItemIndex)

FirstPage_skipFirst(all, limit) == Slice(all, 1, 1 + limit)

FirstPage(all, limit) == Slice(all, 0, limit)

\* advocatesList of GET
AdvocatesList(all, page, limit, cursor) ==
    IF CursorTruthy(cursor)
    THEN LET cursorData == decodeCursor(cursor).value
             cursorItemIndex == FindIndex(all, cursorData.value)
         IN  IF cursorData.t # "undefined"
             THEN IF cursorItemIndex # -1
                  THEN CursorWindow(all, cursorItemIndex, cursorData.direction, limit)
                  ELSE FirstPage(all, limit)
             ELSE FirstPage(all, limit)
    ELSE OffsetWindow(all, page, limit)

\* Math.floor in place of Math.ceil
CeilDiv_floor(a, b) == a \div b

\* Math.ceil(a / b)
CeilDiv(a, b) == (a + b - 1) \div b

NoPagination ==
    [totalCount |-> 0, pageSize |-> 0, currentPage |-> 0, totalPages |-> 0,
     hasNextPage |-> FALSE, hasPreviousPage |-> FALSE,
     nextCursor |-> NoCursor, prevCursor |-> NoCursor]

\* A response: keys are the keys of the JSON body, link is the Link header
\* and etag the ETag header (empty when the header is not set)
NoResponse ==
    [status |-> 0, keys |-> {}, success |-> FALSE, error |-> "", message |-> "",
     data |-> <<>>, pagination |-> NoPagination, link |-> <<>>, etag |-> <<>>]

SuccessKeys == {"success", "data", "pagination"}
FailureKeys == {"success", "error", "message"}

\* what a store read throws: an Error with a message, or another value
ErrorMessage(read, isError) ==
    IF isError THEN "query failed: " \o read ELSE "Unknown error"

\* a catch block that answers with the default status
ErrorResponse_ok(message) ==
    [status |-> 200, keys |-> FailureKeys, success |-> FALSE,
     error |-> "Failed to fetch advocates", message |-> message,
     data |-> <<>>, pagination |-> NoPagination, link |-> <<>>, etag |-> <<>>]

\* The catch block of GET
ErrorResponse(message) ==
    [status |-> 500, keys |-> FailureKeys, success |-> FALSE,
     error |-> "Failed to fetch advocates", message |-> message,
     data |-> <<>>, pagination |-> NoPagination, link |-> <<>>, etag |-> <<>>]

\* an early return that tells the page position
EmptyResponse_pageFlag(paginationParams) ==
    [status |-> 200, keys |-> SuccessKeys, success |-> TRUE, error |-> "",
     message |-> "", data |-> <<>>,
     pagination |->
        [totalCount |-> 0,
         pageSize |-> paginationParams.limit,
         currentPage |-> paginationParams.page,
         totalPages |-> 0,
         hasNextPage |-> FALSE, hasPreviousPage |-> paginationParams.page > 1,
         nextCursor |-> NoCursor, prevCursor |-> NoCursor],
     link |-> <<>>, etag |-> <<>>]

\* The "no data" early return of GET
EmptyResponse(paginationParams) ==
    [status |-> 200, keys |-> SuccessKeys, success |-> TRUE, error |-> "",
     message |-> "", data |-> <<>>,
     pagination |->
        [totalCount |-> 0,
         pageSize |-> paginationParams.limit,
         currentPage |-> paginationParams.page,
         totalPages |-> 0,
         hasNextPage |-> FALSE, hasPreviousPage |-> FALSE,
         nextCursor |-> NoCursor, prevCursor |-> NoCursor],
     link |-> <<>>, etag |-> <<>>]

PaginationMeta(all, advocatesList, page, limit, cursor) ==
    LET totalCount == Len(all)
        hasNextPage ==
            /\ Len(advocatesList) < totalCount
            /\ (IF CursorTruthy(cursor) THEN TRUE
                ELSE (page - 1) * limit + Len(advocatesList) < totalCount)
        hasPreviousPage == IF CursorTruthy(cursor) THEN TRUE ELSE page > 1
        nextCursor ==
            IF Len(advocatesList) > 0 /\ hasNextPage
            THEN encodeCursor("id", Num(advocatesList[Len(advocatesList)]), "forward")
            ELSE NoCursor
        prevCursor ==
            IF Len(advocatesList) > 0 /\ hasPreviousPage
            THEN encodeCursor("id", Num(advocatesList[1]), "backward")
            ELSE NoCursor
    IN  [totalCount |-> totalCount,
         pageSize |-> limit,
         currentPage |-> page,
         totalPages |-> CeilDiv(totalCount, limit),
         hasNextPage |-> hasNextPage,
         hasPreviousPage |-> hasPreviousPage,
         nextCursor |-> nextCursor,
         prevCursor |-> prevCursor]

(***************************************************************************)
(* Link header.  A query string is the sequence of its [key, value]        *)
(* entries, as URLSearchParams keeps them; a value is a record that holds  *)
(* a character sequence, a text or a cursor string, so that the entries of *)
(* one query string have one shape.                                        *)
(***************************************************************************)
CharsValue(v) == [chars |-> v, str |-> "", cursor |-> NoCursor]
StrValue(s) == [chars |-> <<>>, str |-> s, cursor |-> NoCursor]
CursorValue(c) == [chars |-> <<>>, str |-> "", cursor |-> c]

Entry(key, value) == [key |-> key, value |-> value]

Digits == <<"0", "1", "2", "3", "4", "5", "6", "7", "8", "9">>

\* Number.prototype.toString() of a non-negative integer
RECURSIVE NumberToString(_)
NumberToString(n) ==
    IF n < 10 THEN <<Digits[n + 1]>>
    ELSE Append(NumberToString(n \div 10), Digits[(n % 10) + 1])

\* currentPage / totalPages of a PaginationMeta that leaves them undefined
UndefinedNumber == -1

\* URLSearchParams.prototype.set: the first entry of the name takes the
\* value and the other entries of the name are removed; without an entry of
\* the name, one is appended.
RECURSIVE RemoveKey(_, _)
RemoveKey(entries, key) ==
    IF entries = <<>> THEN <<>>
    ELSE IF Head(entries).key = key THEN RemoveKey(Tail(entries), key)
         ELSE <<Head(entries)>> \o RemoveKey(Tail(entries), key)

RECURSIVE SearchParamsSet(_, _, _)
SearchParamsSet(entries, key, value) ==
    IF entries = <<>> THEN <<Entry(key, value)>>
    ELSE IF Head(entries).key = key
         THEN <<Entry(key, value)>> \o RemoveKey(Tail(entries), key)
         ELSE <<Head(entries)>> \o SearchParamsSet(Tail(entries), key, value)

\* URLSearchParams.prototype.get: the value of the first entry of the name
SearchParamsHas(entries, key) == \E i \in 1..Len(entries) : entries[i].key = key

SearchParamsGet(entries, key) ==
    entries[CHOOSE i \in 1..Len(entries) :
                /\ entries[i].key = key
                /\ \A j \in 1..(i - 1) : entries[j].key # key].value

\* entries.forEach(e => linkUrl.searchParams.set(e.key, e.value)) on acc
RECURSIVE SetEach(_, _)
SetEach(acc, entries) ==
    IF entries = <<>> THEN acc
    ELSE SetEach(SearchParamsSet(acc, Head(entries).key, Head(entries).value),
                 Tail(entries))

\* the entries of the request that createLink copies
RECURSIVE ExistingParams(_)
ExistingParams(entries) ==
    IF entries = <<>> THEN <<>>
    ELSE IF Head(entries).key \in {"page", "limit", "cursor"}
         THEN ExistingParams(Tail(entries))
         ELSE <<Head(entries)>> \o ExistingParams(Tail(entries))

\* createLink of getLinkHeader: a link is its rel and the query string of
\* its URL
createLink(entries, rel, linkParams) ==
    [rel |-> rel,
     searchParams |-> SetEach(SetEach(<<>>, ExistingParams(entries)), linkParams)]

\* The Link header: the sequence of its links, in the order they are joined
getLinkHeader(entries, meta) ==
    (IF CursorTruthy(meta.nextCursor)
     THEN <<createLink(entries, "next", <<Entry("cursor", CursorValue(meta.nextCursor))>>)>>
     ELSE <<>>)
    \o
    (IF CursorTruthy(meta.prevCursor)
     THEN <<createLink(entries, "prev", <<Entry("cursor", CursorValue(meta.prevCursor))>>)>>
     ELSE <<>>)
    \o
    (IF meta.currentPage # UndefinedNumber /\ meta.totalPages # UndefinedNumber
     THEN LET limit == Entry("limit", CharsValue(NumberToString(meta.pageSize)))
          IN  <<createLink(entries, "first", <<Entry("page", CharsValue(<<"1">>)), limit>>),
                createLink(entries, "last",
                           <<Entry("page", CharsValue(NumberToString(meta.totalPages))), limit>>)>>
              \o
              (IF meta.currentPage < meta.totalPages
               THEN <<createLink(entries, "next",
                         <<Entry("page", CharsValue(NumberToString(meta.currentPage + 1))), limit>>)>>
               ELSE <<>>)
              \o
              (IF meta.currentPage > 1
               THEN <<createLink(entries, "prev",
                         <<Entry("page", CharsValue(NumberToString(meta.currentPage - 1))), limit>>)>>
               ELSE <<>>)
     ELSE <<>>)

\* request.nextUrl.searchParams of the traced request: the entries of the
\* parameters that are present, in the order the query string gives them
SearchParams(q) ==
    (IF q.page.present THEN <<Entry("page", CharsValue(q.page.v))>> ELSE <<>>)
    \o (IF q.limit.present THEN <<Entry("limit", CharsValue(q.limit.v))>> ELSE <<>>)
    \o (IF q.cursor # NoCursor THEN <<Entry("cursor", CursorValue(q.cursor))>> ELSE <<>>)
    \o (IF q.sort.present THEN <<Entry("sort", StrValue(q.sort.v))>> ELSE <<>>)
    \o (IF q.order.present THEN <<Entry("order", StrValue(q.order.v))>> ELSE <<>>)
    \o (IF q.secondarySort.present
        THEN <<Entry("secondarySort", StrValue(q.secondarySort.v))>> ELSE <<>>)
    \o (IF q.secondaryOrder.present
        THEN <<Entry("secondaryOrder", StrValue(q.secondaryOrder.v))>> ELSE <<>>)
    \o (IF q.experienceGte.present
        THEN <<Entry("experience[gte]", CharsValue(q.experienceGte.v))>> ELSE <<>>)

(***************************************************************************)
(* Filters.  A descriptor is [field, operation, value]; a value is a text  *)
(* (character sequence), an array of texts, a number or a pair of numbers. *)
(***************************************************************************)
StringValue(chars) == [kind |-> "string", chars |-> chars, list |-> <<>>, nums |-> <<>>]
ArrayValue(list) == [kind |-> "array", chars |-> <<>>, list |-> list, nums |-> <<>>]
NumberValue(n) == [kind |-> "number", chars |-> <<>>, list |-> <<>>, nums |-> <<n>>]
RangeValue(min, max) == [kind |-> "range", chars |-> <<>>, list |-> <<>>, nums |-> <<min, max>>]

Filter(field, operation, value) == [field |-> field, operation |-> operation, value |-> value]

FilterDefinition(field, type, operations, paramName) ==
    [field |-> field, type |-> type, operations |-> operations, paramName |-> paramName]

ADVOCATE_FILTERS ==
    << FilterDefinition("firstName", "text",
                        <<"eq", "contains", "startsWith", "endsWith">>, "firstName"),
       FilterDefinition("lastName", "text",
                        <<"eq", "contains", "startsWith", "endsWith">>, "lastName"),
       FilterDefinition("degree", "exact", <<"eq", "in">>, "degree"),
       FilterDefinition("yearsOfExperience", "range",
                        <<"eq", "gt", "gte", "lt", "lte", "between">>, "experience"),
       FilterDefinition("specialties", "array", <<"any", "all">>, "specialty"),
       FilterDefinition("city", "text", <<"eq", "contains">>, "city"),
       FilterDefinition("createdAt", "range",
                        <<"gt", "gte", "lt", "lte", "between">>, "createdAt") >>

\* Array.prototype.includes
Includes(seq, x) == \E i \in 1..Len(seq) : seq[i] = x

\* String.prototype.split(sep) for a one-character separator
RECURSIVE Split(_, _)
Split(s, sep) ==
    IF \E i \in 1..Len(s) : s[i] = sep
    THEN LET i == CHOOSE k \in 1..Len(s) : s[k] = sep /\ \A j \in 1..(k - 1) : s[j] # sep
         IN  <<SubSeq(s, 1, i - 1)>> \o Split(SubSeq(s, i + 1, Len(s)), sep)
    ELSE <<s>>

RECURSIVE TrimEnd(_)
TrimEnd(s) ==
    IF Len(s) > 0 /\ s[Len(s)] = " " THEN TrimEnd(SubSeq(s, 1, Len(s) - 1)) ELSE s

\* String.prototype.trim
Trim(s) == TrimEnd(TrimStart(s))

\* searchParams.get(key): Absent stands for null
Get(entries, key) ==
    IF SearchParamsHas(entries, key)
    THEN Given(SearchParamsGet(entries, key).chars)
    ELSE Absent

\* a value that an if takes as true: a string that is not empty
IsTruthy(p) == p.present /\ p.v # <<>>

\* `${paramKey}[${operation}]`
OperationKey(paramKey, operation) == paramKey \o "[" \o operation \o "]"

\* The descriptors (none or one) of one operation key whose value is
\* operationValue
ParseOperation(field, operation, operationValue) ==
    IF operation \in {"in", "any", "all"}
    THEN LET tokens == Split(operationValue, ",")
             arrayValue == [i \in 1..Len(tokens) |-> Trim(tokens[i])]
         IN  <<Filter(field, operation, ArrayValue(arrayValue))>>
    ELSE IF operation = "between"
    THEN LET tokens == Split(operationValue, ",")
             min == parseFloat(Trim(tokens[1]))
             max == IF Len(tokens) >= 2 THEN parseFloat(Trim(tokens[2])) ELSE JsUndefined
         IN  IF ~isNaN(min) /\ ~isNaN(max)
             THEN <<Filter(field, operation, RangeValue(min.n, max.n))>>
             ELSE <<>>
    ELSE IF operation \in {"gt", "gte", "lt", "lte"}
    THEN LET numValue == parseFloat(operationValue)
         IN  IF ~isNaN(numValue)
             THEN <<Filter(field, operation, NumberValue(numValue.n))>>
             ELSE <<>>
    ELSE <<Filter(field, operation, StringValue(operationValue))>>

\* the loop over the operations of one filter definition
RECURSIVE OperationFilters(_, _, _)
OperationFilters(entries, filterDef, operations) ==
    IF operations = <<>> THEN <<>>
    ELSE LET operation == Head(operations)
             operationValue == Get(entries, OperationKey(filterDef.paramName, operation))
         IN  (IF IsTruthy(operationValue)
              THEN ParseOperation(filterDef.field, operation, operationValue.v)
              ELSE <<>>)
             \o OperationFilters(entries, filterDef, Tail(operations))

\* a loop body that goes on to the operation keys after the bare key
FieldFilters_scanAfterEq(entries, filterDef) ==
    LET basicValue == Get(entries, filterDef.paramName)
    IN  (IF IsTruthy(basicValue) /\ Includes(filterDef.operations, "eq")
         THEN <<Filter(filterDef.field, "eq", StringValue(basicValue.v))>>
         ELSE <<>>)
        \o OperationFilters(entries, filterDef, filterDef.operations)

\* the loop body of getFilterParams for one filter definition
FieldFilters(entries, filterDef) ==
    LET basicValue == Get(entries, filterDef.paramName)
    IN  IF IsTruthy(basicValue) /\ Includes(filterDef.operations, "eq")
        THEN <<Filter(filterDef.field, "eq", StringValue(basicValue.v))>>
        ELSE OperationFilters(entries, filterDef, filterDef.operations)

RECURSIVE FiltersOf(_, _)
FiltersOf(entries, filterDefs) ==
    IF filterDefs = <<>> THEN <<>>
    ELSE FieldFilters(entries, Head(filterDefs)) \o FiltersOf(entries, Tail(filterDefs))

getFilterParams(entries) == FiltersOf(entries, ADVOCATE_FILTERS)

\* buildRangeCondition with a single number, evaluated on a row
RangeConditionHolds(id, filter) ==
    CASE filter.operation = "eq" -> Column(id, filter.field) = filter.value.nums[1]
      [] filter.operation = "gt" -> Column(id, filter.field) > filter.value.nums[1]
      [] filter.operation = "gte" -> Column(id, filter.field) >= filter.value.nums[1]
      [] filter.operation = "lt" -> Column(id, filter.field) < filter.value.nums[1]
      [] filter.operation = "lte" -> Column(id, filter.field) <= filter.value.nums[1]

(***************************************************************************)
(* Predicates.  A condition is the SQL predicate a builder returns: the    *)
(* table of its column, the field, the operation and the operand.  The     *)
(* outcome of a builder is the sequence of the conditions it returned (one, *)
(* or none for an undefined condition), or a throw.                        *)
(***************************************************************************)
Condition(table, field, operation, value) ==
    [table |-> table, field |-> field, operation |-> operation, value |-> value]

Built(condition) == [outcome |-> "return", value |-> <<condition>>]
NotBuilt == [outcome |-> "return", value |-> <<>>]
Unsupported == [outcome |-> "throw", value |-> <<>>]

buildTextCondition(field, operation, value) ==
    IF operation \in {"eq", "contains", "startsWith", "endsWith"}
    THEN Built(Condition("advocates", field, operation, value))
    ELSE Unsupported

buildExactCondition(field, operation, value) ==
    IF operation \in {"eq", "in"}
    THEN Built(Condition("advocates", field, operation, value))
    ELSE Unsupported

buildRangeCondition(field, operation, value) ==
    IF operation \in {"eq", "gt", "gte", "lt", "lte", "between"}
    THEN Built(Condition("advocates", field, operation, value))
    ELSE Unsupported

buildArrayCondition(operation, value) ==
    IF operation \in {"any", "all"}
    THEN Built(Condition("specialties", "specialties", operation, value))
    ELSE Unsupported

\* a location builder without the contains case
buildLocationCondition_eqOnly(operation, value) ==
    IF operation \in {"eq"}
    THEN Built(Condition("locations", "city", operation, value))
    ELSE Unsupported

buildLocationCondition(operation, value) ==
    IF operation \in {"eq", "contains"}
    THEN Built(Condition("locations", "city", operation, value))
    ELSE Unsupported

\* ADVOCATE_FILTERS.find(def => def.field === field): the definitions found
\* (none or the first)
FindFilterDef(field) ==
    LET hits == {i \in 1..Len(ADVOCATE_FILTERS) : ADVOCATE_FILTERS[i].field = field}
    IN  IF hits = {} THEN <<>>
        ELSE <<ADVOCATE_FILTERS[CHOOSE i \in hits : \A j \in hits : i <= j]>>

\* the switch on filterDef.type
BuildCondition(filter, filterDef) ==
    CASE filterDef.type = "text" ->
            IF filter.field = "city"
            THEN buildLocationCondition(filter.operation, filter.value)
            ELSE buildTextCondition(filter.field, filter.operation, filter.value)
      [] filterDef.type = "exact" ->
            buildExactCondition(filter.field, filter.operation, filter.value)
      [] filterDef.type = "range" ->
            buildRangeCondition(filter.field, filter.operation, filter.value)
      [] filterDef.type = "array" ->
            IF filter.field = "specialties"
            THEN buildArrayCondition(filter.operation, filter.value)
            ELSE NotBuilt
      [] OTHER -> NotBuilt

\* the loop body without its try / catch
FilterConditionTry_uncaught(filter) ==
    LET filterDef == FindFilterDef(filter.field)
    IN  IF filterDef = <<>> THEN NotBuilt
        ELSE BuildCondition(filter, filterDef[1])

\* the loop body of buildFilterConditions for one descriptor: the catch
\* block logs the error and the descriptor is skipped
FilterConditionTry(filter) ==
    LET filterDef == FindFilterDef(filter.field)
    IN  IF filterDef = <<>> THEN NotBuilt
        ELSE LET built == BuildCondition(filter, filterDef[1])
             IN  IF built.outcome = "throw" THEN NotBuilt ELSE built

\* the outcome of the whole loop: its conditions, or the throw that ends it
RECURSIVE buildFilterConditions(_)
buildFilterConditions(filterList) ==
    IF filterList = <<>> THEN NotBuilt
    ELSE LET first == FilterConditionTry(Head(filterList))
             rest == buildFilterConditions(Tail(filterList))
         IN  IF first.outcome = "throw" THEN Unsupported
             ELSE IF rest.outcome = "throw" THEN Unsupported
             ELSE [outcome |-> "return", value |-> first.value \o rest.value]

\* an ETag without the total count
ETag_noCount(totalCount, page, limit, field, direction) ==
    <<"W/", "\"">> \o NumberToString(page) \o <<"-">> \o NumberToString(limit)
                  \o <<"-", field, "-", direction, "\"">>

\* the template literal of the ETag header, as the sequence of its pieces
\* (the characters of the numbers, the field and the direction as one piece
\* each)
ETag(totalCount, page, limit, field, direction) ==
    <<"W/", "\"">> \o NumberToString(totalCount) \o <<"-">>
                  \o NumberToString(page) \o <<"-">> \o NumberToString(limit)
                  \o <<"-", field, "-", direction, "\"">>

\* The response GET builds from the query string q and the result all of the
\* sorted advocates query
GETResponse(q, all) ==
    LET paginationParams == getPaginationParams(q)
        sortParameters == getSortParams(q)
        page == paginationParams.page
        limit == paginationParams.limit
        cursor == paginationParams.cursor
        advocatesList == AdvocatesList(all, page, limit, cursor)
        data == MapValues(advocatesList)
        paginationMeta == PaginationMeta(all, advocatesList, page, limit, cursor)
    IN  IF Len(data) = 0 THEN EmptyResponse(paginationParams)
        ELSE [status |-> 200, keys |-> SuccessKeys, success |-> TRUE, error |-> "",
              message |-> "", data |-> data,
              pagination |-> paginationMeta,
              link |-> getLinkHeader(SearchParams(q), paginationMeta),
              etag |-> ETag(Len(all), page, limit,
                            sortParameters.field, sortParameters.direction)]

(***************************************************************************)
(* The client: AdvocateService builds Filter objects, buildFilterParams    *)
(* turns them into the parameters object and ApiClient.buildUrl into the   *)
(* query string.  A parameters object is the sequence of its [key, value]  *)
(* properties in insertion order, the values being filter values.          *)
(***************************************************************************)
isTextFilter(filter) == filter.operation \in {"contains", "startsWith", "endsWith", "eq"}
isNumberFilter(filter) == filter.operation \in {"eq", "gt", "gte", "lt", "lte", "between"}
isArrayFilter(filter) == filter.operation \in {"any", "all"}

\* String(value) of an element or a property value
StringOf(value) ==
    IF value.kind = "number" THEN NumberToString(value.nums[1]) ELSE value.chars

\* Array.prototype.join(',') of a list of strings
RECURSIVE Join(_)
Join(list) ==
    IF list = <<>> THEN <<>>
    ELSE IF Len(list) = 1 THEN list[1]
    ELSE list[1] \o <<",">> \o Join(Tail(list))

\* filter.value.join(',') of a number pair or a string list
JoinValue(value) ==
    IF value.kind = "range"
    THEN Join([i \in 1..Len(value.nums) |-> NumberToString(value.nums[i])])
    ELSE Join(value.list)

\* the property one filter sets in the parameters object (none for a filter
\* no type guard accepts)
FilterParam(filter) ==
    IF isTextFilter(filter)
    THEN IF filter.operation = "eq"
         THEN <<Entry(filter.field, filter.value)>>
         ELSE <<Entry(OperationKey(filter.field, filter.operation), filter.value)>>
    ELSE IF isNumberFilter(filter)
    THEN IF filter.operation = "between" /\ filter.value.kind \in {"range", "array"}
         THEN <<Entry(OperationKey(filter.field, filter.operation),
                      StringValue(JoinValue(filter.value)))>>
         ELSE <<Entry(OperationKey(filter.field, filter.operation), filter.value)>>
    ELSE IF isArrayFilter(filter)
    THEN <<Entry(OperationKey(filter.field, filter.operation),
                 StringValue(JoinValue(filter.value)))>>
    ELSE <<>>

RECURSIVE buildFilterParams(_)
buildFilterParams(filterList) ==
    IF filterList = <<>> THEN <<>>
    ELSE SetEach(FilterParam(Head(filterList)), buildFilterParams(Tail(filterList)))

\* buildQueryParams without pagination and sorting
buildQueryParams(filterList) ==
    IF Len(filterList) > 0 THEN buildFilterParams(filterList) ELSE <<>>

\* ApiClient.buildUrl: the entries appended to url.searchParams
RECURSIVE buildUrl(_)
buildUrl(parameters) ==
    IF parameters = <<>> THEN <<>>
    ELSE LET key == Head(parameters).key
             value == Head(parameters).value
         IN  (IF value.kind \in {"array", "range"}
              THEN LET items == IF value.kind = "array" THEN value.list
                                ELSE [i \in 1..Len(value.nums) |-> NumberToString(value.nums[i])]
                   IN  [i \in 1..Len(items) |-> Entry(key \o "[]", CharsValue(items[i]))]
              ELSE <<Entry(key, CharsValue(StringOf(value)))>>)
             \o buildUrl(Tail(parameters))

\* phoneNumber.toString() of the seed rows
SeedPhoneNumber ==
    << <<"5","5","5","1","2","3","4","5","6","7">>, <<"5","5","5","9","8","7","6","5","4","3">>,
       <<"5","5","5","4","5","6","7","8","9","0">>, <<"5","5","5","6","5","4","3","2","1","0">>,
       <<"5","5","5","3","2","1","0","9","8","7">>, <<"5","5","5","7","8","9","0","1","2","3">>,
       <<"5","5","5","4","5","6","1","2","3","4">>, <<"5","5","5","7","8","9","6","5","4","3">>,
       <<"5","5","5","0","1","2","3","4","5","6">>, <<"5","5","5","3","2","1","7","6","5","4">>,
       <<"5","5","5","1","2","3","8","7","6","5">>, <<"5","5","5","6","5","4","0","9","8","7">>,
       <<"5","5","5","9","8","7","3","4","5","6">>, <<"5","5","5","6","7","8","1","2","3","4">>,
       <<"5","5","5","9","8","7","2","3","4","5">> >>

\* degree.toLowerCase() of the seed rows
SeedDegree == <<<<"m", "d">>, <<"p", "h", "d">>, <<"m", "s", "w">>>>

PhoneNumber(id) == SeedPhoneNumber[SeedIndex(id)]
Degree(id) == SeedDegree[((SeedIndex(id) - 1) % 3) + 1]

\* String.prototype.includes
StringIncludes(str, sub) ==
    \E i \in 0..(Len(str) - Len(sub)) : SubSeq(str, i + 1, i + Len(sub)) = sub

\* searchLower.replace(/\D/g, '')
RECURSIVE NumericSearch(_)
NumericSearch(str) ==
    IF str = <<>> THEN <<>>
    ELSE (IF IsDigit(Head(str), 10) THEN <<Head(str)>> ELSE <<>>) \o NumericSearch(Tail(str))

\* The filter callback of searchAdvocates on the row id, for a lower-case
\* query that no seeded name, city, state, country or specialty contains
SearchMatches(id, searchLower) ==
    LET phoneStr == PhoneNumber(id)
        numericSearch == NumericSearch(searchLower)
    IN  \/ StringIncludes(Degree(id), searchLower)
        \/ StringIncludes(phoneStr, numericSearch)
        \/ (Len(numericSearch) >= 3 /\ StringIncludes(phoneStr, numericSearch))

\* Array.prototype.filter
RECURSIVE FilterRows(_, _)
FilterRows(rows, searchLower) ==
    IF rows = <<>> THEN <<>>
    ELSE (IF SearchMatches(Head(rows), searchLower) THEN <<Head(rows)>> ELSE <<>>)
         \o FilterRows(Tail(rows), searchLower)

\* the query string of getAdvocates(pagination) for { page, limit }
PageQuery(page, limit) ==
    [page |-> IF page > 0 THEN Given(NumberToString(page)) ELSE Absent,
     limit |-> IF limit > 0 THEN Given(NumberToString(limit)) ELSE Absent,
     cursor |-> NoCursor, sort |-> AbsentStr, order |-> AbsentStr,
     secondarySort |-> AbsentStr, secondaryOrder |-> AbsentStr, experienceGte |-> Absent]

\* AdvocateService.searchAdvocates(query, { page, limit }) against the
\* server whose advocates query returns all: the page of the filtered rows
\* with its metadata, then the call itself
SearchPage(filteredData, page, limit) ==
    LET totalCount == Len(filteredData)
        pageSize == IF limit # 0 THEN limit ELSE 10
        currentPage == IF page # 0 THEN page ELSE 1
        totalPages == CeilDiv(totalCount, pageSize)
        startIndex == (currentPage - 1) * pageSize
    IN  [data |-> Slice(filteredData, startIndex, startIndex + pageSize),
         pagination |->
            [totalCount |-> totalCount, pageSize |-> pageSize,
             currentPage |-> currentPage, totalPages |-> totalPages,
             hasNextPage |-> currentPage < totalPages,
             hasPreviousPage |-> currentPage > 1,
             nextCursor |-> NoCursor, prevCursor |-> NoCursor]]

searchAdvocates(query, page, limit, all) ==
    SearchPage(FilterRows(GETResponse(PageQuery(page, limit), all).data, query), page, limit)

\* the filters of AdvocateService.filterByExperience
filterByExperience(min, max) ==
    <<Filter("yearsOfExperience", "between", RangeValue(min, max))>>

\* the filters of AdvocateService.filterBySpecialties
filterBySpecialties(specialties, matchAll) ==
    <<Filter("specialty", IF matchAll THEN "all" ELSE "any", ArrayValue(specialties))>>

\* the filters of AdvocateService.filterByLocation
filterByLocation(city) ==
    <<Filter("city", "contains", StringValue(city))>>

\* the filters a service call hands to getAdvocates
ServiceFilters(call) ==
    CASE call.method = "filterByExperience" -> filterByExperience(call.min, call.max)
      [] call.method = "filterBySpecialties" ->
            filterBySpecialties(call.specialties, call.matchAll)
      [] call.method = "filterByLocation" -> filterByLocation(call.city)
      [] OTHER -> <<>>

(***************************************************************************)
(* Enumerated inputs                                                       *)
(***************************************************************************)
DigitChar == <<"1", "2", "3", "4", "5", "6", "7", "8", "9">>

RequestPages == {Absent} \cup {Given(<<DigitChar[p]>>) : p \in 2..MaxPage}
RequestLimits ==
    {Absent, Given(<<"1">>), Given(<<"5">>), Given(<<"1", "0">>), Given(<<"2", "5">>),
     Given(<<"5", "0">>)}

Directions == {"forward", "backward"}

\* Cursor strings a client can send: none, the empty string, a string that
\* is no base64 of JSON, base64 of JSON null, of an object without field, of
\* a cursor whose value is a string, and of a cursor on each id (one of
\* them beyond the store's largest id).
RequestCursors ==
    {NoCursor, PlainString(""), PlainString("invalid-cursor"),
     Base64String(JsonText(NonObject("null"))),
     Base64String(JsonText(Obj(JsUndefined, Num(1), Str("forward")))),
     Base64String(JsonText(Obj(Str("id"), Str("1"), Str("forward"))))}
    \cup {encodeCursor("id", Num(id), d) : id \in 1..(MaxAdvocates + 1), d \in Directions}

Queries ==
    [page : RequestPages,
     limit : RequestLimits,
     cursor : RequestCursors,
     sort : {AbsentStr, GivenStr("yearsOfExperience")},
     order : {AbsentStr, GivenStr("asc")},
     secondarySort : {AbsentStr},
     secondaryOrder : {AbsentStr},
     experienceGte : {Absent, Given(<<"9">>)}]

NoRequest ==
    [page |-> Absent, limit |-> Absent, cursor |-> NoCursor,
     sort |-> AbsentStr, order |-> AbsentStr,
     secondarySort |-> AbsentStr, secondaryOrder |-> AbsentStr,
     experienceGte |-> Absent]

NoParams == [page |-> 0, limit |-> 0, cursor |-> NoCursor]
NoInput == [field |-> "", value |-> JsUndefined, direction |-> ""]
NoResult == [outcome |-> "none", value |-> Undefined]
NoSortParams == [field |-> "", direction |-> "", secondaryField |-> "", secondaryDirection |-> ""]
NoConditions == [outcome |-> "none", value |-> <<>>]

\* the variables of the later specifications at rest
\* page 0 / limit 0 stand for an undefined page / limit
NoCall ==
    [method |-> "none", min |-> 0, max |-> 0, specialties |-> <<>>, matchAll |-> FALSE,
     city |-> <<>>, query |-> <<>>, page |-> 0, limit |-> 0]

NoServiceResult == [data |-> <<>>, pagination |-> NoPagination]

\* The useState values of useAdvocates at the first render, for the options
\* given (pagination null is the metadata without cursors)
InitialHook(useCursorPagination, initialPageSize, initialSortField, initialSortDirection) ==
    [useCursorPagination |-> useCursorPagination,
     currentPage |-> 1, pageSize |-> initialPageSize, cursor |-> NoCursor,
     sort |-> initialSortField, order |-> initialSortDirection, searchTerm |-> <<>>,
     advocates |-> <<>>, pagination |-> NoPagination, isLoading |-> TRUE, error |-> FALSE]

NoHook ==
    /\ hook = InitialHook(FALSE, 10, "createdAt", "desc")
    /\ fetches = <<>>
    /\ pending = {}
    /\ failures = {}

NoExchange == [request |-> NoRequest, response |-> NoResponse]

NoExtra ==
    /\ expressions = <<>>
    /\ earlier = NoExchange
    /\ tieOrder = "idAsc"
    /\ collected = <<>>
    /\ serviceCall = NoCall
    /\ serviceResult = NoServiceResult
    /\ NoHook

\* the variables of the utility specifications at rest
NoUtil ==
    /\ searchParams = <<>>
    /\ pagination = NoPagination
    /\ linkHeader = <<>>
    /\ filterParams = <<>>
    /\ conditions = NoConditions
    /\ sortParams = NoSortParams
    /\ NoExtra

(***************************************************************************)
(* Spec: the store and one traced exchange                                 *)
(***************************************************************************)
Init ==
    /\ advocates = 0
    /\ phase = "idle"
    /\ request = NoRequest
    /\ allAdvocates = <<>>
    /\ response = NoResponse
    /\ storeFailed = FALSE
    /\ params = NoParams
    /\ cursorInput = NoInput
    /\ cursorString = NoCursor
    /\ cursorResult = NoResult
    /\ NoUtil

\* db.insert(advocates): one more row
InsertAdvocate ==
    /\ advocates < MaxAdvocates
    /\ advocates' = advocates + 1
    /\ UNCHANGED <<phase, request, allAdvocates, response, storeFailed,
                   params, cursorInput, cursorString, cursorResult, utilVars, extraVars>>

\* GET with every store read succeeding
GET ==
    /\ phase = "idle"
    /\ \E q \in Queries, tie \in {"idAsc", "idDesc"} :
          LET sortExpressions == getSortExpressionsWithCaseInsensitive(getSortParams(q))
              all == OrderBy(1..advocates, sortExpressions, tie)
          IN  /\ request' = q
              /\ allAdvocates' = all
              /\ response' = GETResponse(q, all)
    /\ storeFailed' = FALSE
    /\ phase' = "responded"
    /\ UNCHANGED <<advocates, params, cursorInput, cursorString, cursorResult, utilVars, extraVars>>

\* the requests traced through a failing store read: every page, limit and
\* cursor, with the default sort and no filter (the catch block reads nothing
\* of the request)
FailingQueries ==
    {q \in Queries : q.sort = AbsentStr /\ q.order = AbsentStr /\ q.experienceGte = Absent}

\* the store reads of GET, in the order it awaits them
StoreReads == {"advocates", "locations", "advocateSpecialties", "specialties"}

\* GET with a store read that throws: the catch block answers, whatever the
\* reads before it returned
GETStoreFailure ==
    /\ phase = "idle"
    /\ \E q \in FailingQueries : request' = q
    /\ allAdvocates' = <<>>
    /\ \E message \in {ErrorMessage(read, isError) : read \in StoreReads, isError \in BOOLEAN} :
          response' = ErrorResponse(message)
    /\ storeFailed' = TRUE
    /\ phase' = "responded"
    /\ UNCHANGED <<advocates, params, cursorInput, cursorString, cursorResult, utilVars, extraVars>>

\* The client is done with the response
Close ==
    /\ phase = "responded"
    /\ phase' = "idle"
    /\ request' = NoRequest
    /\ allAdvocates' = <<>>
    /\ response' = NoResponse
    /\ storeFailed' = FALSE
    /\ UNCHANGED <<advocates, params, cursorInput, cursorString, cursorResult, utilVars, extraVars>>

Next == InsertAdvocate \/ GET \/ GETStoreFailure \/ Close

Spec == Init /\ [][Next]_vars

(***************************************************************************)
(* SpecParams: getPaginationParams on every query string whose page and    *)
(* limit are strings over Alphabet of length at most MaxStrLen             *)
(***************************************************************************)
ParamStrings == {Absent} \cup {Given(str) : str \in StringsUpTo(MaxStrLen)}

ParamQueries ==
    [page : ParamStrings,
     limit : ParamStrings,
     cursor : {NoCursor},
     sort : {AbsentStr},
     order : {AbsentStr},
     secondarySort : {AbsentStr},
     secondaryOrder : {AbsentStr},
     experienceGte : {Absent}]

InitParams ==
    /\ advocates = 0
    /\ phase = "input"
    /\ request \in ParamQueries
    /\ allAdvocates = <<>>
    /\ response = NoResponse
    /\ storeFailed = FALSE
    /\ params = NoParams
    /\ cursorInput = NoInput
    /\ cursorString = NoCursor
    /\ cursorResult = NoResult
    /\ NoUtil

ParsePaginationParams ==
    /\ phase = "input"
    /\ params' = getPaginationParams(request)
    /\ phase' = "parsed"
    /\ UNCHANGED <<advocates, request, allAdvocates, response, storeFailed,
                   cursorInput, cursorString, cursorResult, utilVars, extraVars>>

NextParams == ParsePaginationParams

SpecParams == InitParams /\ [][NextParams]_vars

(***************************************************************************)
(* SpecCursor: encodeCursor followed by decodeCursor on enumerated         *)
(* triples, and decodeCursor on enumerated cursor strings                  *)
(***************************************************************************)
CursorFields == {"", "id", "createdAt"}

CursorValues ==
    {Str(""), Str("123"), Num(0), Num(7), Num(-1), NaN, Infinity,
     DateOf("2023-01-01T00:00:00.000Z"), InvalidDate}

CursorInputs == [field : CursorFields, value : CursorValues, direction : Directions]

\* Cursor strings that did not come from encodeCursor
ForgedCursorStrings ==
    {PlainString(""), PlainString("invalid-cursor"), Base64String(GarbageText)}
    \cup {Base64String(JsonText(NonObject(t))) : t \in {"null", "number", "string", "array"}}
    \cup {Base64String(JsonText(Obj(f, v, d))) :
            f \in {JsUndefined, JsNull, Str(""), Str("id"), Num(0)},
            v \in {JsUndefined, JsNull, Num(1), Str("a")},
            d \in {JsUndefined, JsNull, Str("forward"), Str("backward"), Str("sideways")}}

InitCursor ==
    /\ advocates = 0
    /\ request = NoRequest
    /\ allAdvocates = <<>>
    /\ response = NoResponse
    /\ storeFailed = FALSE
    /\ params = NoParams
    /\ cursorResult = NoResult
    /\ NoUtil
    /\ \/ /\ phase = "input"
          /\ cursorInput \in CursorInputs
          /\ cursorString = NoCursor
       \/ /\ phase = "encoded"
          /\ cursorInput = NoInput
          /\ cursorString \in ForgedCursorStrings

EncodeCursor ==
    /\ phase = "input"
    /\ cursorString' = encodeCursor(cursorInput.field, cursorInput.value, cursorInput.direction)
    /\ phase' = "encoded"
    /\ UNCHANGED <<advocates, request, allAdvocates, response, storeFailed,
                   params, cursorInput, cursorResult, utilVars, extraVars>>

DecodeCursor ==
    /\ phase = "encoded"
    /\ cursorResult' = decodeCursor(cursorString)
    /\ phase' = "decoded"
    /\ UNCHANGED <<advocates, request, allAdvocates, response, storeFailed,
                   params, cursorInput, cursorString, utilVars, extraVars>>

NextCursor == EncodeCursor \/ DecodeCursor

SpecCursor == InitCursor /\ [][NextCursor]_vars

(***************************************************************************)
(* SpecLink: getLinkHeader on enumerated query strings (repeated keys      *)
(* included) and enumerated pagination metadata                            *)
(***************************************************************************)
MaxQueryLen == 3        \* entries of an enumerated query string

LinkEntries ==
    {Entry("page", CharsValue(<<"2">>)),
     Entry("cursor", CursorValue(PlainString("abc"))),
     Entry("sort", StrValue("firstName")),
     Entry("sort", StrValue("lastName")),
     Entry("city", StrValue("Boston"))}

RECURSIVE EntriesUpTo(_, _)
EntriesUpTo(set, n) ==
    IF n = 0 THEN {<<>>}
    ELSE LET shorter == EntriesUpTo(set, n - 1)
         IN  shorter \cup {Append(s, e) : s \in {t \in shorter : Len(t) = n - 1}, e \in set}

LinkQueries == EntriesUpTo(LinkEntries, MaxQueryLen)

LinkMetas ==
    [totalCount : {20}, pageSize : {10},
     currentPage : {UndefinedNumber, 1, 2}, totalPages : {UndefinedNumber, 2},
     hasNextPage : {TRUE}, hasPreviousPage : {TRUE},
     nextCursor : {NoCursor, PlainString("next-cursor")},
     prevCursor : {NoCursor, PlainString("prev-cursor")}]

InitLink ==
    /\ advocates = 0
    /\ phase = "input"
    /\ request = NoRequest
    /\ allAdvocates = <<>>
    /\ response = NoResponse
    /\ storeFailed = FALSE
    /\ params = NoParams
    /\ cursorInput = NoInput
    /\ cursorString = NoCursor
    /\ cursorResult = NoResult
    /\ searchParams \in LinkQueries
    /\ pagination \in LinkMetas
    /\ linkHeader = <<>>
    /\ filterParams = <<>>
    /\ conditions = NoConditions
    /\ sortParams = NoSortParams
    /\ NoExtra

GetLinkHeader ==
    /\ phase = "input"
    /\ linkHeader' = getLinkHeader(searchParams, pagination)
    /\ phase' = "linked"
    /\ UNCHANGED <<advocates, request, allAdvocates, response, storeFailed,
                   params, cursorInput, cursorString, cursorResult,
                   searchParams, pagination, filterParams, conditions, sortParams, extraVars>>

NextLink == GetLinkHeader

SpecLink == InitLink /\ [][NextLink]_vars

(***************************************************************************)
(* SpecFilters: getFilterParams on enumerated query strings followed by    *)
(* buildFilterConditions, and buildFilterConditions on enumerated lists of *)
(* descriptors                                                             *)
(***************************************************************************)
MaxValueLen == 5        \* length of the enumerated experience[between] values
MaxFilters == 3         \* length of the enumerated descriptor lists

RECURSIVE StringsOver(_, _)
StringsOver(alphabet, n) ==
    IF n = 0 THEN {<<>>}
    ELSE LET shorter == StringsOver(alphabet, n - 1)
         IN  shorter \cup {Append(t, c) : t \in {u \in shorter : Len(u) = n - 1}, c \in alphabet}

\* the entry of a parameter, if it is present
Param(key, p) == IF p.present THEN <<Entry(key, CharsValue(p.v))>> ELSE <<>>

Maybe(values) == {Absent} \cup {Given(v) : v \in values}

\* every value of experience[between] over the alphabet, alone or beside
\* the bare key and another operation key
BetweenQueries ==
    {Param("experience[between]", b) \o Param("experience", e) \o Param("experience[gte]", g) :
        b \in {Given(str) : str \in StringsOver({"1", ",", " ", "x"}, MaxValueLen)},
        e \in Maybe({<<"5">>}),
        g \in Maybe({<<"1">>})}

\* bare keys and operation keys of several fields side by side
FieldQueries ==
    {Param("experience", e) \o Param("experience[eq]", ee) \o Param("experience[gte]", g)
       \o Param("experience[between]", b) \o Param("firstName", f)
       \o Param("firstName[contains]", fc) \o Param("degree[in]", d)
       \o Param("createdAt", c) \o Param("createdAt[gt]", cg) \o Param("unknownField", u) :
        e \in Maybe({<<>>, <<"5">>}), ee \in Maybe({<<"5">>}), g \in Maybe({<<"1">>, <<"x">>}),
        b \in Maybe({<<"1", ",", "5">>}), f \in Maybe({<<"J", "o">>}),
        fc \in Maybe({<<"J">>}), d \in Maybe({<<"M", ",", " ", "P">>}),
        c \in Maybe({<<"5">>}), cg \in Maybe({<<"1">>}), u \in Maybe({<<"v">>})}

FilterQueries == BetweenQueries \cup FieldQueries

\* the operand a caller gives to an operation
OperandOf(operation) ==
    CASE operation = "between" -> RangeValue(1, 5)
      [] operation = "any" -> ArrayValue(<< <<"T">> >>)
      [] OTHER -> StringValue(<<"5">>)

\* descriptors a caller can hand over: for every builder an operation it
\* has a case for and one it has none for, createdAt with an operation its
\* definition does not list, and a field that is not allow-listed
Descriptors ==
    {Filter(fo[1], fo[2], OperandOf(fo[2])) :
        fo \in {<<"firstName", "contains">>, <<"firstName", "between">>,
                <<"degree", "eq">>, <<"degree", "between">>,
                <<"yearsOfExperience", "between">>, <<"yearsOfExperience", "contains">>,
                <<"specialties", "any">>, <<"specialties", "eq">>,
                <<"city", "contains">>, <<"city", "between">>,
                <<"createdAt", "eq">>, <<"unknownField", "eq">>}}

DescriptorLists == EntriesUpTo(Descriptors, MaxFilters)

InitFilters ==
    /\ advocates = 0
    /\ request = NoRequest
    /\ allAdvocates = <<>>
    /\ response = NoResponse
    /\ storeFailed = FALSE
    /\ params = NoParams
    /\ cursorInput = NoInput
    /\ cursorString = NoCursor
    /\ cursorResult = NoResult
    /\ pagination = NoPagination
    /\ linkHeader = <<>>
    /\ conditions = NoConditions
    /\ sortParams = NoSortParams
    /\ NoExtra
    /\ \/ /\ phase = "input"
          /\ searchParams \in FilterQueries
          /\ filterParams = <<>>
       \/ /\ phase = "listed"
          /\ searchParams = <<>>
          /\ filterParams \in DescriptorLists

GetFilterParams ==
    /\ phase = "input"
    /\ filterParams' = getFilterParams(searchParams)
    /\ phase' = "parsed"
    /\ UNCHANGED <<advocates, request, allAdvocates, response, storeFailed,
                   params, cursorInput, cursorString, cursorResult,
                   searchParams, pagination, linkHeader, conditions, sortParams, extraVars>>

BuildFilterConditions ==
    /\ phase \in {"parsed", "listed"}
    /\ conditions' = buildFilterConditions(filterParams)
    /\ phase' = "built"
    /\ UNCHANGED <<advocates, request, allAdvocates, response, storeFailed,
                   params, cursorInput, cursorString, cursorResult,
                   searchParams, pagination, linkHeader, filterParams, sortParams, extraVars>>

NextFilters == GetFilterParams \/ BuildFilterConditions

SpecFilters == InitFilters /\ [][NextFilters]_vars

(***************************************************************************)
(* SpecSort: getSortParams on enumerated sort, order, secondarySort and    *)
(* secondaryOrder parameters                                               *)
(***************************************************************************)
SortFieldStrings ==
    {AbsentStr, GivenStr("")}
    \cup {GivenStr(f) : f \in ALLOWED_ADVOCATE_SORT_FIELDS \cup {"id", "FirstName", "invalid"}}

SortOrderStrings ==
    {AbsentStr} \cup {GivenStr(o) : o \in {"", "asc", "desc", "ASC", "invalid"}}

SortQueries ==
    [page : {Absent},
     limit : {Absent},
     cursor : {NoCursor},
     sort : SortFieldStrings,
     order : SortOrderStrings,
     secondarySort : SortFieldStrings,
     secondaryOrder : SortOrderStrings,
     experienceGte : {Absent}]

InitSort ==
    /\ advocates = 0
    /\ phase = "input"
    /\ request \in SortQueries
    /\ allAdvocates = <<>>
    /\ response = NoResponse
    /\ storeFailed = FALSE
    /\ params = NoParams
    /\ cursorInput = NoInput
    /\ cursorString = NoCursor
    /\ cursorResult = NoResult
    /\ NoUtil

GetSortParams ==
    /\ phase = "input"
    /\ sortParams' = getSortParams(request)
    /\ phase' = "sorted"
    /\ UNCHANGED <<advocates, request, allAdvocates, response, storeFailed,
                   params, cursorInput, cursorString, cursorResult,
                   searchParams, pagination, linkHeader, filterParams, conditions, extraVars>>

GetSortExpressions ==
    /\ phase = "sorted"
    /\ expressions' = getSortExpressionsWithCaseInsensitive(sortParams)
    /\ phase' = "expressed"
    /\ UNCHANGED <<baseVars, utilVars, earlier, tieOrder, collected, serviceCall,
                   serviceResult, hookVars>>

NextSort == GetSortParams \/ GetSortExpressions

SpecSort == InitSort /\ [][NextSort]_vars

(***************************************************************************)
(* SpecETag: two GET exchanges, the second one on the same store or on the *)
(* store with one more row.                                                *)
(***************************************************************************)
ETagQueries ==
    [page : {Absent, Given(<<"2">>)},
     limit : {Absent, Given(<<"5">>)},
     cursor : {NoCursor, encodeCursor("id", Num(2), "forward")},
     sort : {AbsentStr, GivenStr("yearsOfExperience")},
     order : {AbsentStr, GivenStr("asc")},
     secondarySort : {AbsentStr, GivenStr("lastName")},
     secondaryOrder : {AbsentStr},
     experienceGte : {Absent}]

InitETag ==
    /\ advocates \in 0..MaxAdvocates
    /\ phase = "idle"
    /\ request = NoRequest
    /\ allAdvocates = <<>>
    /\ response = NoResponse
    /\ storeFailed = FALSE
    /\ params = NoParams
    /\ cursorInput = NoInput
    /\ cursorString = NoCursor
    /\ cursorResult = NoResult
    /\ NoUtil

\* one GET of SpecETag: the exchange traced so far becomes the earlier one
ETagExchange(from, to) ==
    /\ phase \in from
    /\ \E q \in ETagQueries, tie \in {"idAsc", "idDesc"} :
          LET all == OrderBy(1..advocates,
                             getSortExpressionsWithCaseInsensitive(getSortParams(q)), tie)
          IN  /\ request' = q
              /\ allAdvocates' = all
              /\ response' = GETResponse(q, all)
    /\ earlier' = [request |-> request, response |-> response]
    /\ phase' = to
    /\ UNCHANGED <<advocates, storeFailed, params, cursorInput, cursorString,
                   cursorResult, utilVars, expressions, tieOrder, collected, serviceCall,
                   serviceResult, hookVars>>

FirstGET == ETagExchange({"idle"}, "first")

InsertBetween ==
    /\ phase = "first"
    /\ advocates < MaxAdvocates
    /\ advocates' = advocates + 1
    /\ phase' = "grown"
    /\ UNCHANGED <<request, allAdvocates, response, storeFailed, params, cursorInput,
                   cursorString, cursorResult, utilVars, extraVars>>

SecondGET == ETagExchange({"first", "grown"}, "second")

NextETag == FirstGET \/ InsertBetween \/ SecondGET

SpecETag == InitETag /\ [][NextETag]_vars

(***************************************************************************)
(* SpecChain, SpecWalk: a client that starts on the offset first page and  *)
(* follows the cursors of the responses with the same limit and sort,      *)
(* against an unchanged store.  The store is not written between the       *)
(* requests, so the advocates query returns rows that tie on the sort keys *)
(* in one order (tieOrder) throughout.                                        *)
(***************************************************************************)
ChainQueries ==
    [page : {Absent, Given(<<"1">>)},
     limit : {Absent, Given(<<"5">>)},
     cursor : {NoCursor},
     sort : {AbsentStr, GivenStr("yearsOfExperience"), GivenStr("degree")},
     order : {AbsentStr, GivenStr("asc")},
     secondarySort : {AbsentStr},
     secondaryOrder : {AbsentStr},
     experienceGte : {Absent}]

InitChain ==
    /\ advocates \in 0..MaxAdvocates
    /\ phase = "idle"
    /\ request = NoRequest
    /\ allAdvocates = <<>>
    /\ response = NoResponse
    /\ storeFailed = FALSE
    /\ params = NoParams
    /\ cursorInput = NoInput
    /\ cursorString = NoCursor
    /\ cursorResult = NoResult
    /\ searchParams = <<>>
    /\ pagination = NoPagination
    /\ linkHeader = <<>>
    /\ filterParams = <<>>
    /\ conditions = NoConditions
    /\ sortParams = NoSortParams
    /\ expressions = <<>>
    /\ earlier = NoExchange
    /\ tieOrder \in {"idAsc", "idDesc"}
    /\ collected = <<>>
    /\ serviceCall = NoCall
    /\ serviceResult = NoServiceResult
    /\ NoHook

\* the advocates query of GET for the query string q on the unchanged store
SortedQuery(q) ==
    OrderBy(1..advocates, getSortExpressionsWithCaseInsensitive(getSortParams(q)), tieOrder)

\* the first request: no cursor
ChainStart ==
    /\ phase = "idle"
    /\ \E q \in ChainQueries : request' = q
    /\ phase' = "asked"
    /\ UNCHANGED <<advocates, allAdvocates, response, storeFailed, params, cursorInput,
                   cursorString, cursorResult, utilVars, extraVars>>

\* the next request: the same query string with cursor = nextCursor
FollowNext ==
    /\ phase = "chain"
    /\ CursorTruthy(response.pagination.nextCursor)
    /\ request' = [request EXCEPT !.cursor = response.pagination.nextCursor]
    /\ earlier' = [request |-> request, response |-> response]
    /\ phase' = "asked"
    /\ UNCHANGED <<advocates, allAdvocates, response, storeFailed, params, cursorInput,
                   cursorString, cursorResult, utilVars, expressions, tieOrder, collected,
                   serviceCall, serviceResult, hookVars>>

\* after a step forward, the request with cursor = prevCursor
FollowPrev ==
    /\ phase = "chain"
    /\ earlier # NoExchange
    /\ CursorTruthy(response.pagination.prevCursor)
    /\ request' = [request EXCEPT !.cursor = response.pagination.prevCursor]
    /\ phase' = "askedBack"
    /\ UNCHANGED <<advocates, allAdvocates, response, storeFailed, params, cursorInput,
                   cursorString, cursorResult, utilVars, extraVars>>

\* GET answers the request of the client; the client puts the rows of a
\* response reached forwards at the end of those it holds
ChainGET ==
    /\ phase \in {"asked", "askedBack"}
    /\ \E r \in {GETResponse(request, SortedQuery(request))} :
          /\ allAdvocates' = SortedQuery(request)
          /\ response' = r
          /\ collected' = IF phase = "asked" THEN collected \o r.data ELSE collected
    /\ phase' = IF phase = "asked" THEN "chain" ELSE "back"
    /\ UNCHANGED <<advocates, request, storeFailed, params, cursorInput, cursorString,
                   cursorResult, utilVars, expressions, earlier, tieOrder, serviceCall,
                   serviceResult, hookVars>>

NextChain == ChainStart \/ FollowNext \/ ChainGET

\* the guard of NextChain
CanRequest ==
    \/ phase \in {"idle", "asked"}
    \/ phase = "chain" /\ CursorTruthy(response.pagination.nextCursor)

\* The client sends its next request as soon as it holds a nextCursor and
\* the server answers every request: weak fairness of NextChain, with the guard of the step written out for
\* ENABLED <<NextChain>>_vars.
SpecChain ==
    InitChain /\ [][NextChain]_vars /\ ([]<>(~CanRequest) \/ []<><<TRUE>>_vars)

NextWalk == ChainStart \/ FollowNext \/ FollowPrev \/ ChainGET

SpecWalk == InitChain /\ [][NextWalk]_vars

(***************************************************************************)
(* SpecClient: a filter call of AdvocateService, serialized by the client  *)
(* and parsed by getFilterParams.                                          *)
(***************************************************************************)
MaxSpecialties == 2
MaxYears == 3

\* specialty names: two plain ones and one that holds a comma
SpecialtyNames == {<<"B">>, <<"L", "G">>, <<"R", "(", "f", ",", " ", "c", ")">>}

CityNames == {<<>>, <<"N">>, <<"N", "e", "w">>, <<"S", "t", ".", " ", "P">>}

ServiceCalls ==
    {[NoCall EXCEPT !.method = "filterByExperience", !.min = lo, !.max = hi] :
        lo \in 0..MaxYears, hi \in 0..MaxYears}
    \cup {[NoCall EXCEPT !.method = "filterBySpecialties", !.specialties = names,
                         !.matchAll = all] :
             names \in EntriesUpTo(SpecialtyNames, MaxSpecialties), all \in BOOLEAN}
    \cup {[NoCall EXCEPT !.method = "filterByLocation", !.city = c] : c \in CityNames}

InitClient ==
    /\ advocates = 0
    /\ phase = "call"
    /\ request = NoRequest
    /\ allAdvocates = <<>>
    /\ response = NoResponse
    /\ storeFailed = FALSE
    /\ params = NoParams
    /\ cursorInput = NoInput
    /\ cursorString = NoCursor
    /\ cursorResult = NoResult
    /\ searchParams = <<>>
    /\ pagination = NoPagination
    /\ linkHeader = <<>>
    /\ filterParams = <<>>
    /\ conditions = NoConditions
    /\ sortParams = NoSortParams
    /\ expressions = <<>>
    /\ earlier = NoExchange
    /\ tieOrder = "idAsc"
    /\ collected = <<>>
    /\ serviceCall \in ServiceCalls
    /\ serviceResult = NoServiceResult
    /\ NoHook

\* getAdvocates(undefined, undefined, filters): the query string of the
\* request the client sends
GetAdvocates ==
    /\ phase = "call"
    /\ searchParams' = buildUrl(buildQueryParams(ServiceFilters(serviceCall)))
    /\ phase' = "input"
    /\ UNCHANGED <<baseVars, pagination, linkHeader, filterParams, conditions, sortParams,
                   extraVars>>

NextClient == GetAdvocates \/ GetFilterParams

SpecClient == InitClient /\ [][NextClient]_vars

(***************************************************************************)
(* SpecSearch: one call of AdvocateService.searchAdvocates against the     *)
(* store.                                                                  *)
(***************************************************************************)
\* a degree, digits every phone number has, digits of some phone numbers
SearchTexts == {<<"p", "h", "d">>, <<"5", "5", "5">>, <<"1", "2", "3", "4">>}

SearchCalls ==
    {[NoCall EXCEPT !.method = "searchAdvocates", !.query = text, !.page = p, !.limit = l] :
        text \in SearchTexts, p \in 0..MaxPage, l \in {0, 5, 10}}

InitSearch ==
    /\ advocates \in 0..MaxAdvocates
    /\ phase = "call"
    /\ request = NoRequest
    /\ allAdvocates = <<>>
    /\ response = NoResponse
    /\ storeFailed = FALSE
    /\ params = NoParams
    /\ cursorInput = NoInput
    /\ cursorString = NoCursor
    /\ cursorResult = NoResult
    /\ NoUtil

SearchAdvocates ==
    /\ phase = "call"
    /\ \E call \in SearchCalls :
          LET q == PageQuery(call.page, call.limit)
          IN  /\ serviceCall' = call
              /\ request' = q
              /\ allAdvocates' = SortedQuery(q)
              /\ serviceResult' =
                    searchAdvocates(call.query, call.page, call.limit, SortedQuery(q))
    /\ phase' = "returned"
    /\ UNCHANGED <<advocates, response, storeFailed, params, cursorInput, cursorString,
                   cursorResult, utilVars, expressions, earlier, tieOrder, collected,
                   hookVars>>

NextSearch == SearchAdvocates

SpecSearch == InitSearch /\ [][NextSearch]_vars

(***************************************************************************)
(* SpecHook, SpecMount: the useAdvocates hook against the unchanged store. *)
(* A render, the effects it schedules and the state updates of one event   *)
(* are one step.  router.push is taken to leave the page's search          *)
(* parameters as they are, so the URL effect sets no state.                *)
(***************************************************************************)
MaxFetches == 3

\* fetchAdvocates as created by the render with state h: the values it
\* closes over and the branch it takes
FetchOf(h) ==
    [kind |-> IF h.useCursorPagination /\ CursorTruthy(h.cursor) THEN "cursor"
              ELSE IF Trim(h.searchTerm) # <<>> THEN "search"
              ELSE "page",
     page |-> h.currentPage, limit |-> h.pageSize, cursor |-> h.cursor,
     sort |-> h.sort, order |-> h.order, query |-> h.searchTerm]

\* the query string of getAdvocates / getAdvocatesByCursor for a call
FetchQuery(f) ==
    [page |-> IF f.kind = "page" /\ f.page > 0 THEN Given(NumberToString(f.page)) ELSE Absent,
     limit |-> IF f.limit > 0 THEN Given(NumberToString(f.limit)) ELSE Absent,
     cursor |-> IF f.kind = "cursor" THEN f.cursor ELSE NoCursor,
     sort |-> IF f.sort # "" THEN GivenStr(f.sort) ELSE AbsentStr,
     order |-> IF f.order # "" THEN GivenStr(f.order) ELSE AbsentStr,
     secondarySort |-> AbsentStr, secondaryOrder |-> AbsentStr, experienceGte |-> Absent]

\* response.data of the ApiClient: the parsed body with its rows and metadata
ResponseBody(r) == [data |-> r.data, pagination |-> r.pagination]

\* what the service call of a fetch resolves to
FetchResult(f) ==
    IF f.kind = "search"
    THEN searchAdvocates(f.query, f.page, f.limit, SortedQuery(PageQuery(f.page, f.limit)))
    ELSE ResponseBody(GETResponse(FetchQuery(f), SortedQuery(FetchQuery(f))))

\* fetchAdvocates is a new function: one of its dependencies changed
DepsChanged(h, h2) ==
    \/ h.currentPage # h2.currentPage
    \/ h.pageSize # h2.pageSize
    \/ h.cursor # h2.cursor
    \/ h.searchTerm # h2.searchTerm

\* The render with the new state h2 and its fetch effect: the effect runs
\* when fetchAdvocates is a new function, and fetchAdvocates starts with
\* setIsLoading(true), setError(null)
Render(h2, newSortParams, settled) ==
    IF newSortParams \/ DepsChanged(hook, h2)
    THEN /\ hook' = [h2 EXCEPT !.isLoading = TRUE, !.error = FALSE]
         /\ fetches' = Append(fetches, FetchOf(h2))
         /\ pending' = (pending \ settled) \cup {Len(fetches) + 1}
    ELSE /\ hook' = h2
         /\ fetches' = fetches
         /\ pending' = pending \ settled

HookUnchanged ==
    UNCHANGED <<advocates, request, allAdvocates, response, storeFailed, params,
                cursorInput, cursorString, cursorResult, utilVars, expressions, earlier,
                tieOrder, collected, serviceCall, serviceResult>>

\* the first render: the fetch effect runs
Mount ==
    /\ phase = "unmounted"
    /\ phase' = "mounted"
    /\ hook' = [hook EXCEPT !.isLoading = TRUE, !.error = FALSE]
    /\ fetches' = <<FetchOf(hook)>>
    /\ pending' = {1}
    /\ UNCHANGED failures
    /\ HookUnchanged

\* the user may act while fewer than MaxFetches fetches were issued
UserActs == phase = "mounted" /\ Len(fetches) < MaxFetches

HandlePageChange ==
    /\ UserActs
    /\ \E page \in {1, 2} : Render([hook EXCEPT !.currentPage = page], FALSE, {})
    /\ UNCHANGED <<phase, failures>>
    /\ HookUnchanged

HandlePageSizeChange ==
    /\ UserActs
    /\ \E size \in {5, 10} :
          Render([hook EXCEPT !.pageSize = size, !.currentPage = 1], FALSE, {})
    /\ UNCHANGED <<phase, failures>>
    /\ HookUnchanged

HandleSortChange ==
    /\ UserActs
    /\ \E field \in {"yearsOfExperience"}, direction \in {""} :
          Render([hook EXCEPT !.sort = field,
                              !.order = IF direction # "" THEN direction ELSE "asc"],
                 TRUE, {})
    /\ UNCHANGED <<phase, failures>>
    /\ HookUnchanged

SetSearchTerm ==
    /\ UserActs
    /\ \E term \in {<<>>, <<"p", "h", "d">>} :
          Render([hook EXCEPT !.searchTerm = term], FALSE, {})
    /\ UNCHANGED <<phase, failures>>
    /\ HookUnchanged

HandleCursorNavigation ==
    /\ UserActs
    /\ \E direction \in {"next", "prev"} :
          Render(IF direction = "next" /\ CursorTruthy(hook.pagination.nextCursor)
                 THEN [hook EXCEPT !.cursor = hook.pagination.nextCursor]
                 ELSE IF direction = "prev" /\ CursorTruthy(hook.pagination.prevCursor)
                 THEN [hook EXCEPT !.cursor = hook.pagination.prevCursor]
                 ELSE hook,
                 FALSE, {})
    /\ UNCHANGED <<phase, failures>>
    /\ HookUnchanged

\* the continuation of fetchAdvocates after its await, for the call i
Settle ==
    /\ phase = "mounted"
    /\ \E i \in pending, ok \in BOOLEAN :
          \E result \in {FetchResult(fetches[i])} :
              /\ Render(IF ok
                        THEN [hook EXCEPT
                                !.advocates = result.data,
                                !.pagination = result.pagination,
                                !.cursor = IF CursorTruthy(result.pagination.nextCursor)
                                           THEN result.pagination.nextCursor ELSE @,
                                !.isLoading = FALSE]
                        ELSE [hook EXCEPT !.error = TRUE, !.isLoading = FALSE],
                        FALSE, {i})
              /\ failures' = IF ok THEN failures ELSE failures \cup {i}
    /\ UNCHANGED phase
    /\ HookUnchanged

HookOptions ==
    {InitialHook(cursorMode, 10, "createdAt", "desc") : cursorMode \in BOOLEAN}

InitHook ==
    /\ advocates = MaxAdvocates
    /\ phase = "unmounted"
    /\ request = NoRequest
    /\ allAdvocates = <<>>
    /\ response = NoResponse
    /\ storeFailed = FALSE
    /\ params = NoParams
    /\ cursorInput = NoInput
    /\ cursorString = NoCursor
    /\ cursorResult = NoResult
    /\ searchParams = <<>>
    /\ pagination = NoPagination
    /\ linkHeader = <<>>
    /\ filterParams = <<>>
    /\ conditions = NoConditions
    /\ sortParams = NoSortParams
    /\ expressions = <<>>
    /\ earlier = NoExchange
    /\ tieOrder = "idAsc"
    /\ collected = <<>>
    /\ serviceCall = NoCall
    /\ serviceResult = NoServiceResult
    /\ hook \in HookOptions
    /\ fetches = <<>>
    /\ pending = {}
    /\ failures = {}

NextHook ==
    \/ Mount
    \/ HandlePageChange
    \/ HandlePageSizeChange
    \/ HandleSortChange
    \/ SetSearchTerm
    \/ HandleCursorNavigation
    \/ Settle

SpecHook == InitHook /\ [][NextHook]_vars

MountOptions ==
    {InitialHook(cursorMode, size, field, direction) :
        cursorMode \in BOOLEAN, size \in {5, 10},
        field \in {"createdAt", "yearsOfExperience", "degree"}, direction \in {"asc", "desc"}}

InitMount ==
    /\ advocates \in 0..MaxAdvocates
    /\ phase = "unmounted"
    /\ request = NoRequest
    /\ allAdvocates = <<>>
    /\ response = NoResponse
    /\ storeFailed = FALSE
    /\ params = NoParams
    /\ cursorInput = NoInput
    /\ cursorString = NoCursor
    /\ cursorResult = NoResult
    /\ searchParams = <<>>
    /\ pagination = NoPagination
    /\ linkHeader = <<>>
    /\ filterParams = <<>>
    /\ conditions = NoConditions
    /\ sortParams = NoSortParams
    /\ expressions = <<>>
    /\ earlier = NoExchange
    /\ tieOrder \in {"idAsc", "idDesc"}
    /\ collected = <<>>
    /\ serviceCall = NoCall
    /\ serviceResult = NoServiceResult
    /\ hook \in MountOptions
    /\ fetches = <<>>
    /\ pending = {}
    /\ failures = {}

\* the hook without any user action
NextMount == Mount \/ Settle

SpecMount == InitMount /\ [][NextMount]_vars

(***************************************************************************)
(* Properties                                                              *)
(***************************************************************************)
\* The traced request was answered without a store failure
Answered == phase = "responded" /\ ~storeFailed

ReqPage == getPaginationParams(request).page
ReqLimit == getPaginationParams(request).limit
TotalRows == Len(allAdvocates)

\* rows lo+1 .. hi (1-based) of the sorted list, in order
IsRows(data, lo, hi) ==
    /\ Len(data) = Max(0, hi - lo)
    /\ \A i \in 1..Len(data) : data[i] = allAdvocates[lo + i]

\* 1-based position of row id in the sorted list (0 if it is not there)
PositionOf(id) ==
    IF \E i \in 1..TotalRows : allAdvocates[i] = id
    THEN CHOOSE i \in 1..TotalRows : allAdvocates[i] = id
    ELSE 0

\* C1: in offset mode (no cursor parameter) the data of the response is
\* exactly the rows at 0-based positions [(p-1)*s, p*s) of the sorted
\* advocate list, in order, cut short only where the list ends.
C1_OffsetWindow ==
    (Answered /\ request.cursor = NoCursor) =>
        IsRows(response.data, (ReqPage - 1) * ReqLimit, Min(ReqPage * ReqLimit, TotalRows))

\* a last page that the end of the list cuts short, past the first page
C1_Witness ==
    /\ Answered /\ request.cursor = NoCursor
    /\ ReqPage >= 2
    /\ Len(response.data) \in 1..(ReqLimit - 1)

\* C2: an offset-mode response has hasNextPage = (page*s < N),
\* hasPreviousPage = (page > 1) and totalPages = ceil(N/s), for every page
\* >= 1, pages past the last one included (stated here for the stores that
\* hold at least one advocate; C13 describes the empty store).
C2_OffsetMeta ==
    (Answered /\ request.cursor = NoCursor /\ TotalRows > 0) =>
        /\ response.pagination.hasNextPage = (ReqPage * ReqLimit < TotalRows)
        /\ response.pagination.hasPreviousPage = (ReqPage > 1)
        /\ response.pagination.totalPages = CeilDiv(TotalRows, ReqLimit)

\* C3: a cursor that decodes and references the row at position i of the
\* sorted list gives, forward, the next s rows after it and, backward, the s
\* rows just before it; the referenced row is never in the window.
C3_CursorWindow ==
    Answered =>
        \A id \in 1..(MaxAdvocates + 1), d \in Directions :
            (request.cursor = encodeCursor("id", Num(id), d) /\ PositionOf(id) > 0) =>
                LET pos == PositionOf(id)
                IN  /\ d = "forward" =>
                            IsRows(response.data, pos, Min(pos + ReqLimit, TotalRows))
                    /\ d = "backward" =>
                            IsRows(response.data, Max(0, pos - 1 - ReqLimit), pos - 1)
                    /\ \A i \in 1..Len(response.data) : response.data[i] # id

\* a full backward window that does not start at the head of the list
C3_Witness ==
    /\ Answered
    /\ \E id \in 1..MaxAdvocates :
          /\ request.cursor = encodeCursor("id", Num(id), "backward")
          /\ PositionOf(id) > ReqLimit + 1
    /\ Len(response.data) = ReqLimit

\* C4: in a non-empty response nextCursor is present exactly when a row of
\* the sorted list lies after the last row of the window, and then decodes
\* to {id, id of the last row, forward}; prevCursor is present exactly when
\* a row lies before the first row of the window, and then decodes to
\* {id, id of the first row, backward}.
C4_CursorsMinted ==
    (Answered /\ response.status = 200 /\ Len(response.data) > 0) =>
        LET data == response.data
            first == data[1]
            last == data[Len(data)]
            next == response.pagination.nextCursor
            prev == response.pagination.prevCursor
        IN  /\ (next # NoCursor) <=> (PositionOf(last) < TotalRows)
            /\ (next # NoCursor) =>
                  decodeCursor(next).value = Obj(Str("id"), Num(last), Str("forward"))
            /\ (prev # NoCursor) <=> (PositionOf(first) > 1)
            /\ (prev # NoCursor) =>
                  decodeCursor(prev).value = Obj(Str("id"), Num(first), Str("backward"))

\* The cursor of the request cannot be decoded, or references no row
CursorUnusable ==
    \/ decodeCursor(request.cursor).value = Undefined
    \/ FindIndex(allAdvocates, decodeCursor(request.cursor).value.value) = -1

FirstPageAnswer ==
    /\ response.status = 200
    /\ response.success
    /\ response.error = ""
    /\ IsRows(response.data, 0, Min(ReqLimit, TotalRows))

\* C5 as stated: a cursor parameter that is present but cannot be decoded,
\* or that references no row, gives a success response with the first s
\* rows and no error.
C5_FallbackAsStated ==
    (Answered /\ request.cursor # NoCursor /\ CursorUnusable) => FirstPageAnswer

\* C5 as amended: a cursor parameter that is present and not empty but
\* cannot be decoded, or that references no row, gives a success response
\* with the first s rows and no error; an empty cursor parameter counts as
\* no cursor and the request is answered in offset mode.
C5_Fallback ==
    (Answered /\ CursorTruthy(request.cursor) /\ CursorUnusable) => FirstPageAnswer

\* an undecodable cursor sent together with page 2 on a store of more than
\* one page
C5_Witness ==
    /\ Answered
    /\ request.cursor = PlainString("invalid-cursor")
    /\ ReqPage = 2
    /\ TotalRows > ReqLimit
    /\ Len(response.data) = ReqLimit

\* C6: every advocate in the data satisfies every valid filter of the query
\* string, and totalCount counts only the advocates that satisfy them.
C6_FiltersApplied ==
    (Answered /\ response.status = 200) =>
        LET filters == getFilterParams(SearchParams(request))
            Matches(id) == \A k \in 1..Len(filters) : RangeConditionHolds(id, filters[k])
        IN  /\ \A i \in 1..Len(response.data) : Matches(response.data[i])
            /\ Len(response.data) > 0 =>
                  response.pagination.totalCount
                      = Cardinality({i \in 1..TotalRows : Matches(allAdvocates[i])})

HasDigit(str) == \E i \in 1..Len(str) : IsDigit(str[i], 10)
Missing(p) == ~p.present \/ p.v = <<>>

ExpectedTriple(in) ==
    Obj(Str(in.field), IF in.value.t = "date" THEN Str(in.value.s) ELSE in.value,
        Str(in.direction))

C10_DecodeNeverThrows ==
    phase = "decoded" =>
        /\ cursorResult.outcome = "return"
        /\ (\/ cursorString.k # "b64"
            \/ cursorString.text.t # "json"
            \/ cursorString.text.root.t # "object"
            \/ cursorString.text.root.field = JsUndefined
            \/ cursorString.text.root.direction = JsUndefined)
              => cursorResult.value = Undefined

\* base64 of the JSON document null: reading a property of it throws inside
\* the try block
C10_Witness ==
    /\ phase = "decoded"
    /\ cursorString = Base64String(JsonText(NonObject("null")))
    /\ cursorResult = Return(Undefined)

HasRel(links, rel) == \E i \in 1..Len(links) : links[i].rel = rel

\* C11: the Link header of an offset-mode response always has a first and a
\* last entry, has a next entry only when currentPage < totalPages and a
\* prev entry only when currentPage > 1, and every entry of it carries page
\* and limit and none carries a cursor (stated for the responses that set
\* the header, those with at least one row).
C11_OffsetLinks ==
    (Answered /\ request.cursor = NoCursor /\ Len(response.data) > 0) =>
        LET links == response.link
            meta == response.pagination
        IN  /\ HasRel(links, "first") /\ HasRel(links, "last")
            /\ HasRel(links, "next") => meta.currentPage < meta.totalPages
            /\ HasRel(links, "prev") => meta.currentPage > 1
            /\ \A i \in 1..Len(links) :
                  /\ SearchParamsHas(links[i].searchParams, "page")
                  /\ SearchParamsHas(links[i].searchParams, "limit")
                  /\ ~SearchParamsHas(links[i].searchParams, "cursor")

PaginationKeys == {"page", "limit", "cursor"}

\* C12: every link of getLinkHeader carries every entry of the request's
\* query string whose key is not page, limit or cursor, with its value, and
\* holds no other entry under a key that is not page, limit or cursor.
C12_LinksKeepParams ==
    phase = "linked" =>
        \A i \in 1..Len(linkHeader) :
            LET link == linkHeader[i].searchParams
            IN  /\ \A j \in 1..Len(searchParams) :
                      searchParams[j].key \notin PaginationKeys =>
                          \E k \in 1..Len(link) : link[k] = searchParams[j]
                /\ \A k \in 1..Len(link) :
                      link[k].key \notin PaginationKeys =>
                          \E j \in 1..Len(searchParams) : searchParams[j] = link[k]

OffsetRequest(rows, page, limit) ==
    /\ Answered
    /\ request.cursor = NoCursor
    /\ TotalRows = rows
    /\ request.page = Given(page)
    /\ request.limit = Given(limit)

MiddlePageOfThree(rows) ==
    /\ Len(response.data) = rows
    /\ response.pagination.currentPage = 2
    /\ response.pagination.totalPages = 3
    /\ response.pagination.hasNextPage
    /\ response.pagination.hasPreviousPage

C15_TwoShapes ==
    phase = "responded" =>
        /\ \/ /\ response.status = 200
              /\ response.keys = SuccessKeys
              /\ response.success
              /\ ~storeFailed
           \/ /\ response.status = 500
              /\ response.keys = FailureKeys
              /\ ~response.success
              /\ response.error = "Failed to fetch advocates"
              /\ response.data = <<>>
              /\ storeFailed
        /\ response.status \notin 400..499

\* the locations read threw after the advocates read had returned rows
C15_Witness ==
    /\ phase = "responded" /\ storeFailed
    /\ advocates > 0
    /\ response.message = ErrorMessage("locations", TRUE)
    /\ response.status = 500
    /\ response.data = <<>>

\* getFilterParams has parsed the query string in searchParams
Parsed == phase = "parsed"

\* the descriptors of a field, and of one operation of it, in filterParams
FiltersOn(field) ==
    LET Test(f) == f.field = field IN SelectSeq(filterParams, Test)

FiltersWith(field, operation) ==
    LET Test(f) == f.field = field /\ f.operation = operation
    IN  SelectSeq(filterParams, Test)

\* a token that starts, after white space, with a digit
NumericToken(chars) == Len(Trim(chars)) > 0 /\ IsDigit(Trim(chars)[1], 10)

\* the value of an operation key can be parsed / cannot be parsed; for
\* between, a value of more than two tokens is neither (it is C17's case)
Parsable(operation, chars) ==
    CASE operation \in {"gt", "gte", "lt", "lte"} -> NumericToken(chars)
      [] operation = "between" ->
            /\ Len(Split(chars, ",")) = 2
            /\ \A i \in 1..2 : NumericToken(Split(chars, ",")[i])
      [] OTHER -> TRUE

Unparsable(operation, chars) ==
    CASE operation \in {"gt", "gte", "lt", "lte"} -> ~NumericToken(chars)
      [] operation = "between" ->
            \/ Len(Split(chars, ",")) < 2
            \/ \E i \in 1..2 : ~NumericToken(Split(chars, ",")[i])
      [] OTHER -> FALSE

\* the operation keys of a definition give their descriptors
OperationsScanned(def) ==
    \A k \in 1..Len(def.operations) :
        LET operation == def.operations[k]
            v == Get(searchParams, OperationKey(def.paramName, operation))
            n == Len(FiltersWith(def.field, operation))
        IN  /\ ~IsTruthy(v) => n = 0
            /\ (IsTruthy(v) /\ Parsable(operation, v.v)) => n = 1
            /\ (IsTruthy(v) /\ Unparsable(operation, v.v)) => n = 0

\* the bare key of a definition is an equality filter
BareEquality(def) ==
    IsTruthy(Get(searchParams, def.paramName)) /\ Includes(def.operations, "eq")

\* C16 as stated: for every filterable field, a non-empty bare key gives an
\* equality descriptor when the field supports eq, and every supported
\* operation whose key is present with a parsable value gives one
\* descriptor, whether or not the bare key is present.
C16_BareAndOperationKeysAsStated ==
    Parsed =>
        \A d \in 1..Len(ADVOCATE_FILTERS) :
            LET def == ADVOCATE_FILTERS[d]
            IN  /\ BareEquality(def) =>
                      Includes(filterParams,
                               Filter(def.field, "eq",
                                      StringValue(Get(searchParams, def.paramName).v)))
                /\ \A k \in 1..Len(def.operations) :
                      LET operation == def.operations[k]
                          v == Get(searchParams, OperationKey(def.paramName, operation))
                      IN  (IsTruthy(v) /\ Parsable(operation, v.v)) =>
                              Len(FiltersWith(def.field, operation)) >= 1

\* C16 as amended: for every filterable field, a non-empty bare key of a
\* field that supports eq gives the equality descriptor and nothing else for
\* that field (its operation keys are not scanned); otherwise every
\* supported operation whose key is present with a parsable value gives one
\* descriptor, and no other descriptor is emitted for the field.
C16_BareOrOperationKeys ==
    Parsed =>
        \A d \in 1..Len(ADVOCATE_FILTERS) :
            LET def == ADVOCATE_FILTERS[d]
            IN  IF BareEquality(def)
                THEN FiltersOn(def.field) =
                        <<Filter(def.field, "eq",
                                 StringValue(Get(searchParams, def.paramName).v))>>
                ELSE /\ OperationsScanned(def)
                     /\ \A i \in 1..Len(FiltersOn(def.field)) :
                           Includes(def.operations, FiltersOn(def.field)[i].operation)

\* experience=5 beside experience[gte]=1, and firstName[contains] without
\* the bare firstName
C16_Witness ==
    /\ Parsed
    /\ Get(searchParams, "experience") = Given(<<"5">>)
    /\ Get(searchParams, "experience[gte]") = Given(<<"1">>)
    /\ ~SearchParamsHas(searchParams, "firstName")
    /\ FiltersOn("yearsOfExperience") = <<Filter("yearsOfExperience", "eq", StringValue(<<"5">>))>>
    /\ FiltersOn("firstName") = <<Filter("firstName", "contains", StringValue(<<"J">>))>>

\* C17: experience[between] gives a between descriptor only when its value
\* splits on commas into exactly two tokens that both parse as numbers, with
\* the pair [first, second] as value; any other token count or a token that
\* is not numeric gives no descriptor for the key, and the other filters are
\* still parsed (stated for the requests without the bare key experience,
\* which C16 describes).
C17_Between ==
    (Parsed /\ ~IsTruthy(Get(searchParams, "experience"))
            /\ IsTruthy(Get(searchParams, "experience[between]"))) =>
        LET tokens == Split(Get(searchParams, "experience[between]").v, ",")
            emitted == FiltersWith("yearsOfExperience", "between")
        IN  /\ IF Len(tokens) = 2 /\ \A i \in 1..2 : NumericToken(tokens[i])
               THEN emitted =
                      <<Filter("yearsOfExperience", "between",
                               RangeValue(parseFloat(Trim(tokens[1])).n,
                                          parseFloat(Trim(tokens[2])).n))>>
               ELSE emitted = <<>>
            /\ Get(searchParams, "experience[gte]") = Given(<<"1">>) =>
                  Includes(filterParams, Filter("yearsOfExperience", "gte", NumberValue(1)))

\* buildFilterConditions has answered for the descriptors in filterParams
BuiltConditions == phase = "built"

\* the field of the descriptor is allow-listed with the operation
Qualifies(f) ==
    \E d \in 1..Len(ADVOCATE_FILTERS) :
        /\ ADVOCATE_FILTERS[d].field = f.field
        /\ Includes(ADVOCATE_FILTERS[d].operations, f.operation)

AllowListed(field) == \E d \in 1..Len(ADVOCATE_FILTERS) : ADVOCATE_FILTERS[d].field = field

\* the descriptors the conditions were built from
DescriptorsOf(conds) ==
    [i \in 1..Len(conds) |-> Filter(conds[i].field, conds[i].operation, conds[i].value)]

BuilderOperations(field) ==
    CASE field = "city" -> {"eq", "contains"}
      [] field \in {"firstName", "lastName"} -> {"eq", "contains", "startsWith", "endsWith"}
      [] field = "degree" -> {"eq", "in"}
      [] field \in {"yearsOfExperience", "createdAt"} ->
            {"eq", "gt", "gte", "lt", "lte", "between"}
      [] field = "specialties" -> {"any", "all"}

\* the builder of the descriptor's field throws on its operation
BuilderThrows(f) == AllowListed(f.field) /\ f.operation \notin BuilderOperations(f.field)

\* C19: buildFilterConditions never throws; a descriptor whose operation
\* the builder of its field does not support is skipped alone: the result
\* is the predicates of the descriptors before it followed by those of the
\* descriptors after it.
C19_NeverThrows ==
    BuiltConditions =>
        /\ conditions.outcome = "return"
        /\ \A i \in 1..Len(filterParams) :
              BuilderThrows(filterParams[i]) =>
                  conditions.value =
                      buildFilterConditions(SubSeq(filterParams, 1, i - 1)).value
                      \o buildFilterConditions(SubSeq(filterParams, i + 1, Len(filterParams))).value

\* degree[between] between two descriptors that are built
C19_Witness ==
    /\ BuiltConditions
    /\ Len(filterParams) = 3
    /\ filterParams[2] = Filter("degree", "between", OperandOf("between"))
    /\ ~BuilderThrows(filterParams[1]) /\ AllowListed(filterParams[1].field)
    /\ ~BuilderThrows(filterParams[3]) /\ AllowListed(filterParams[3].field)
    /\ conditions.outcome = "return"
    /\ DescriptorsOf(conditions.value) = <<filterParams[1], filterParams[3]>>

\* the parameter is present with one of the values
ValidParam(p, values) == p.present /\ p.v \in values

\* C20: getSortParams returns a field of the sort allow-list and a
\* direction in {asc, desc}: the given ones when they are valid, createdAt
\* and desc when they are missing or invalid; secondaryField is present
\* exactly when secondarySort is in the allow-list (and is then that field),
\* and secondaryDirection is present exactly when secondaryField is.
C20_SortParams ==
    phase = "sorted" =>
        /\ sortParams.field \in ALLOWED_ADVOCATE_SORT_FIELDS
        /\ sortParams.direction \in {"asc", "desc"}
        /\ sortParams.field =
              (IF ValidParam(request.sort, ALLOWED_ADVOCATE_SORT_FIELDS)
               THEN request.sort.v ELSE "createdAt")
        /\ sortParams.direction =
              (IF ValidParam(request.order, {"asc", "desc"})
               THEN request.order.v ELSE "desc")
        /\ (sortParams.secondaryField # "")
              <=> ValidParam(request.secondarySort, ALLOWED_ADVOCATE_SORT_FIELDS)
        /\ sortParams.secondaryField # "" => sortParams.secondaryField = request.secondarySort.v
        /\ (sortParams.secondaryDirection # "") <=> (sortParams.secondaryField # "")
        /\ sortParams.secondaryDirection # "" =>
              sortParams.secondaryDirection =
                  (IF ValidParam(request.secondaryOrder, {"asc", "desc"})
                   THEN request.secondaryOrder.v ELSE "asc")

\* an invalid secondarySort sent with a valid secondaryOrder is dropped
\* together with the direction
C20_Witness ==
    /\ phase = "sorted"
    /\ request.sort = GivenStr("firstName")
    /\ request.secondarySort = GivenStr("invalid")
    /\ request.secondaryOrder = GivenStr("desc")
    /\ sortParams.field = "firstName"
    /\ sortParams.secondaryField = ""
    /\ sortParams.secondaryDirection = ""

\* C21: the sort expression list built from a descriptor of getSortParams
\* has exactly two entries, the primary expression first and the secondary
\* one second, when secondarySort is a valid field, and exactly one entry,
\* the primary expression, when secondarySort is absent or invalid; the
\* primary expression is never missing.
C21_SortExpressions ==
    phase = "expressed" =>
        /\ Len(expressions) =
              (IF ValidParam(request.secondarySort, ALLOWED_ADVOCATE_SORT_FIELDS)
               THEN 2 ELSE 1)
        /\ expressions[1] = <<sortParams.field, sortParams.direction>>
        /\ Len(expressions) = 2 =>
              expressions[2] = <<request.secondarySort.v,
                                     IF ValidParam(request.secondaryOrder, {"asc", "desc"})
                                     THEN request.secondaryOrder.v ELSE "asc">>

\* a valid secondary sort gives two expressions, primary first
C21_Witness ==
    /\ phase = "expressed"
    /\ request.sort = GivenStr("lastName")
    /\ request.secondarySort = GivenStr("yearsOfExperience")
    /\ request.secondaryOrder = GivenStr("desc")
    /\ expressions = << <<"lastName", "desc">>, <<"yearsOfExperience", "desc">> >>

\* the five values the ETag is made of, for an exchange
ETagValues(exchange) ==
    <<exchange.response.pagination.totalCount,
      getPaginationParams(exchange.request).page,
      getPaginationParams(exchange.request).limit,
      getSortParams(exchange.request).field,
      getSortParams(exchange.request).direction>>

Traced == [request |-> request, response |-> response]

\* C22: two non-empty responses carry the same ETag exactly when they agree
\* on total count, page, limit, sort field and sort direction, whatever
\* their cursor, secondary sort and rows.
C22_ETag ==
    (phase = "second" /\ Len(response.data) > 0 /\ Len(earlier.response.data) > 0) =>
        /\ response.etag # <<>>
        /\ (response.etag = earlier.response.etag)
              <=> (ETagValues(Traced) = ETagValues(earlier))

\* two responses with different rows, one by cursor and with a secondary
\* sort, and the same ETag
C22_Witness ==
    /\ phase = "second"
    /\ Len(response.data) > 0
    /\ Len(earlier.response.data) > 0
    /\ response.data # earlier.response.data
    /\ CursorTruthy(request.cursor)
    /\ ~CursorTruthy(earlier.request.cursor)
    /\ request.secondarySort # earlier.request.secondarySort
    /\ response.etag = earlier.response.etag

\* the traversal has reached a response without nextCursor
ChainEnded == phase = "chain" /\ ~CursorTruthy(response.pagination.nextCursor)

C25_TotalCount ==
    (Answered /\ response.success) => response.pagination.totalCount = advocates

\* C26: the Link header of a response has at most one entry per rel, and
\* every entry of it that carries a cursor also carries limit = L, the
\* accepted limit of the request.
C26_LinkEntries ==
    Answered =>
        LET links == response.link
        IN  /\ \A i, j \in 1..Len(links) : links[i].rel = links[j].rel => i = j
            /\ \A i \in 1..Len(links) :
                  SearchParamsHas(links[i].searchParams, "cursor") =>
                      /\ SearchParamsHas(links[i].searchParams, "limit")
                      /\ SearchParamsGet(links[i].searchParams, "limit")
                            = CharsValue(NumberToString(ReqLimit))

\* the server field a client filter field stands for
ServerField(field) == IF field = "specialty" THEN "specialties" ELSE field

\* C27: for every filter the client service can build (filterByExperience,
\* filterBySpecialties, filterByLocation), serializing it with
\* buildFilterParams and parsing the query string with getFilterParams
\* yields exactly one descriptor, with the same operation and value, on the
\* corresponding server field.
C27_ClientFilters ==
    (phase = "parsed" /\ serviceCall.method # "none") =>
        LET filter == ServiceFilters(serviceCall)[1]
        IN  filterParams =
               <<Filter(ServerField(filter.field), filter.operation, filter.value)>>

\* all advocates of the store that match the query, in the order of the
\* advocates query
AllMatching == FilterRows(allAdvocates, serviceCall.query)

\* C30: searchAdvocates(query, {page: p, limit: s}) returns the rows at
\* positions (p-1)*s .. p*s-1 of the list of all matching advocates, with no
\* id twice, and pagination.totalCount is the number of all matching
\* advocates.
C30_SearchPage ==
    (phase = "returned" /\ serviceCall.page > 0 /\ serviceCall.limit > 0) =>
        LET p == serviceCall.page
            size == serviceCall.limit
            data == serviceResult.data
        IN  /\ data = Slice(AllMatching, (p - 1) * size, p * size)
            /\ \A i, j \in 1..Len(data) : data[i] = data[j] => i = j
            /\ serviceResult.pagination.totalCount = Len(AllMatching)

\* every fetch issued has settled, none of them with an error
AllSettled == phase = "mounted" /\ pending = {} /\ failures = {}

LatestResult == FetchResult(fetches[Len(fetches)])

\* C28: once all fetches have settled, in whatever order, advocates and
\* pagination hold the response of the most recently issued request; and
\* isLoading is false only when no fetch is in flight.
C28_LatestRequestWins ==
    /\ AllSettled =>
          /\ hook.advocates = LatestResult.data
          /\ hook.pagination = LatestResult.pagination
    /\ (phase = "mounted" /\ ~hook.isLoading) => pending = {}

\* the first page of the sorted list for the hook's page size and sort
FirstPageOfHook ==
    LET first == [FetchOf(hook) EXCEPT !.kind = "page", !.page = 1, !.cursor = NoCursor]
    IN  FetchResult(first).data

\* C29: mounted with useCursorPagination against an unchanged store with
\* more than one page and without any user action, the hook issues a bounded
\* number of fetches, none of them a fetch by cursor (a response that carries
\* nextCursor does not by itself trigger the fetch of the following page),
\* and settles with advocates = the first page.
C29_MountSettlesOnFirstPage ==
    (hook.useCursorPagination /\ advocates > hook.pageSize /\ phase = "mounted") =>
        /\ Len(fetches) <= advocates + 2
        /\ \A i \in 1..Len(fetches) : fetches[i].kind # "cursor"
        /\ AllSettled => hook.advocates = FirstPageOfHook

====
